---- MODULE Spec2Model ----
(***************************************************************************)
(* Solution builder of src/compiler/tsbuild.ts: build order, up-to-date    *)
(* status evaluation, the pending-build queue, the three project actions   *)
(* (Build, UpdateBundle, UpdateOutputFileStamps), clean and invalidation.  *)
(*                                                                         *)
(* A project is identified by a small integer (its resolved config path).  *)
(* Each project has one input file, one .js output and, when it is         *)
(* composite, one .d.ts output.  Times are integers.                       *)
(***************************************************************************)
EXTENDS Integers, Sequences, FiniteSets, TLC

\* ------------------------------------------------------------------ bounds
\* longest projectReferences list of a configuration file
MaxRefs == 2
\* largest value of the host clock
MaxClock == 3
\* number of calls made on one run (build, clean, invalidateProject, edits)
MaxOps == 4

\* ------------------------------------------------------------------ domains
Proj == {1, 2, 3}

\* Date values: minimumDate < missingFileModifiedTime < real times < maximumDate
minimumDate == -1000
maximumDate == 1000
missingFileModifiedTime == 0
\* getModifiedTime() of a file that does not exist (undefined)
NoFile == -1
\* an optional Date field that is not set (undefined)
Undefined == -9999

\* ConfigFileProgramReloadLevel; NotPending is "no entry in projectPendingBuild"
NotPending == -1
LevelNone == 0
LevelPartial == 1
LevelFull == 2
Levels == {LevelNone, LevelPartial, LevelFull}

newer(date1, date2) == IF date2 > date1 THEN date2 ELSE date1

\* ------------------------------------------------------------------ configuration files
\* A project reference of a configuration file.
Ref(path, prepend, circular) == [path |-> path, prepend |-> prepend, circular |-> circular]

\* No entry of configFileCache.
NoConfig ==
    [kind |-> "absent", refs |-> <<>>, files |-> FALSE, composite |-> FALSE,
     incremental |-> FALSE, errors |-> FALSE, noInputsError |-> FALSE,
     errorsForNoInputFiles |-> 0]

\* The Diagnostic stored in place of a configuration that cannot be parsed.
ConfigDiagnostic == [NoConfig EXCEPT !.kind = "diag"]

\* A ParsedCommandLine: fileNames non-empty (files), options.composite,
\* isIncrementalCompilation(options), errors of the parse (errors), whether
\* the raw json can report "no inputs" (noInputsError; then an empty project
\* is not a container), and the number of "no inputs were found" diagnostics
\* in config.errors (errorsForNoInputFiles).
ParsedConfig(refs, files, composite, incremental, errors, noInputsError) ==
    [kind |-> "parsed", refs |-> refs, files |-> files, composite |-> composite,
     incremental |-> incremental, errors |-> errors, noInputsError |-> noInputsError,
     errorsForNoInputFiles |-> IF noInputsError /\ ~files THEN 1 ELSE 0]

isParsedCommandLine(entry) == entry.kind = "parsed"

\* The value x, computed once, handed to F
Let(x, F(_)) == CHOOSE r \in {F(y) : y \in {x}} : TRUE

RECURSIVE SeqToSet(_)
SeqToSet(s) == IF s = <<>> THEN {} ELSE {Head(s)} \cup SeqToSet(Tail(s))

\* Sequences over S without repetition, of length at most n.
RECURSIVE DistinctSeqs(_, _)
DistinctSeqs(S, n) ==
    IF n = 0 THEN {<<>>}
    ELSE LET shorter == DistinctSeqs(S, n - 1)
         IN shorter \cup
            UNION {{Append(s, x) : x \in S \ SeqToSet(s)} :
                       s \in {t \in shorter : Len(t) = n - 1}}

IndexOf(seq, x) ==
    IF \E i \in 1..Len(seq) : seq[i] = x
    THEN CHOOSE i \in 1..Len(seq) : seq[i] = x /\ \A j \in 1..(i - 1) : seq[j] # x
    ELSE 0

\* ------------------------------------------------------------------ statuses
\* UpToDateStatus: the type and the fields the builder reads back.
Status(type, inputTime, declTime, upstream) ==
    [type |-> type, newestInputFileTime |-> inputTime,
     newestDeclarationFileContentChangedTime |-> declTime,
     upstreamProjectName |-> upstream]

\* No entry of projectStatus.
NoStatus == Status("none", Undefined, Undefined, 0)
SimpleStatus(type) == Status(type, Undefined, Undefined, 0)

\* BuildResultFlags, as the set of the bits that are set.
AnyErrors == {"ConfigFileErrors", "SyntaxErrors", "TypeErrors", "DeclarationEmitErrors", "EmitErrors"}

\* ------------------------------------------------------------------ builder state
\* state.buildOrder === undefined
NoBuildOrder == <<0>>

\* createSolutionBuilderState: the state of a newly created builder.
createSolutionBuilderState(watch, rootNames, options) ==
    [options |-> options,
     rootNames |-> rootNames,
     configFileCache |-> [p \in Proj |-> NoConfig],
     projectStatus |-> [p \in Proj |-> NoStatus],
     buildInfoChecked |-> {},
     diagnostics |-> [p \in Proj |-> <<>>],
     projectPendingBuild |-> [p \in Proj |-> NotPending],
     projectErrorsReported |-> {},
     buildOrder |-> NoBuildOrder,
     cache |-> FALSE,
     allProjectBuildPending |-> TRUE,
     needsSummary |-> TRUE,
     watchAllProjectsPending |-> watch,
     watch |-> watch,
     allWatchedWildcardDirectories |-> {},
     allWatchedInputFiles |-> {},
     allWatchedConfigFiles |-> {},
     timerToBuildInvalidatedProject |-> FALSE,
     hostWithWatch |-> [timeouts |-> 0],
     reportFileChangeDetected |-> FALSE]

\* The operators below work on a record w = [s, h, log]: s is the
\* SolutionBuilderState, h the host (files, clock, calls received), log the
\* projects the factory handled during the current call (observation only).

\* getParsedCommandLineOfConfigFile: what parsing project p's configuration
\* file gives now.  A configuration whose inputs come from include patterns
\* (noInputsError) lists the input file only while it exists, and has the
\* "no inputs were found" diagnostic once when it lists nothing.
ParseDisk(h, p) ==
    LET c == h.config[p]
    IN IF c.kind # "parsed" THEN ConfigDiagnostic
       ELSE IF c.noInputsError
       THEN [c EXCEPT !.files = h.input[p] # NoFile,
                      !.errorsForNoInputFiles = IF h.input[p] # NoFile THEN 0 ELSE 1]
       ELSE c

\* parseConfigFile: memoized in configFileCache.
parseConfigFile(w, p) ==
    IF w.s.configFileCache[p].kind # "absent" THEN w
    ELSE [w EXCEPT !.s.configFileCache[p] = ParseDisk(w.h, p)]

\* config.errors is non-empty
HasConfigErrors(config) == config.errors \/ config.errorsForNoInputFiles > 0

\* ------------------------------------------------------------------ build order
RECURSIVE visit(_, _, _)
RECURSIVE visitRefs(_, _, _, _)

\* visit with the project appended before its references are visited
visitAppendsFirst(v, configFileName, inCircularContext) ==
    IF configFileName \in v.permanentMarks THEN v
    ELSE IF configFileName \in v.temporaryMarks
    THEN IF ~inCircularContext
         THEN [v EXCEPT !.w.h.circularReports = @ + 1]
         ELSE v
    ELSE Let([v EXCEPT !.temporaryMarks = @ \cup {configFileName},
                          !.w = parseConfigFile(@, configFileName),
                          !.buildOrder = Append(@, configFileName)],
             LAMBDA v1 :
                 Let(IF isParsedCommandLine(v1.w.s.configFileCache[configFileName])
                     THEN visitRefs(v1, v1.w.s.configFileCache[configFileName].refs, 1,
                                    inCircularContext)
                     ELSE v1,
                     LAMBDA v2 : [v2 EXCEPT !.permanentMarks = @ \cup {configFileName}]))

\* visit with the temporary mark tested before the permanent one
visitTestsTemporaryFirst(v, configFileName, inCircularContext) ==
    IF configFileName \in v.temporaryMarks
    THEN IF ~inCircularContext
         THEN [v EXCEPT !.w.h.circularReports = @ + 1]
         ELSE v
    ELSE IF configFileName \in v.permanentMarks THEN v
    ELSE Let([v EXCEPT !.temporaryMarks = @ \cup {configFileName},
                          !.w = parseConfigFile(@, configFileName)],
             LAMBDA v1 :
                 Let(IF isParsedCommandLine(v1.w.s.configFileCache[configFileName])
                     THEN visitRefs(v1, v1.w.s.configFileCache[configFileName].refs, 1,
                                    inCircularContext)
                     ELSE v1,
                     LAMBDA v2 : [v2 EXCEPT !.permanentMarks = @ \cup {configFileName},
                                            !.buildOrder = Append(@, configFileName)]))

\* visit of createBuildOrder; v = [w, temporaryMarks, permanentMarks, buildOrder]
visit(v, configFileName, inCircularContext) ==
    IF configFileName \in v.permanentMarks THEN v
    ELSE IF configFileName \in v.temporaryMarks
    THEN IF ~inCircularContext
         THEN [v EXCEPT !.w.h.circularReports = @ + 1]
         ELSE v
    ELSE Let([v EXCEPT !.temporaryMarks = @ \cup {configFileName},
                          !.w = parseConfigFile(@, configFileName)],
             LAMBDA v1 :
                 Let(IF isParsedCommandLine(v1.w.s.configFileCache[configFileName])
                     THEN visitRefs(v1, v1.w.s.configFileCache[configFileName].refs, 1,
                                    inCircularContext)
                     ELSE v1,
                     LAMBDA v2 : [v2 EXCEPT !.permanentMarks = @ \cup {configFileName},
                                            !.buildOrder = Append(@, configFileName)]))

visitRefs(v, refs, i, inCircularContext) ==
    IF i > Len(refs) THEN v
    ELSE Let(visit(v, refs[i].path, inCircularContext \/ refs[i].circular),
             LAMBDA v1 : visitRefs(v1, refs, i + 1, inCircularContext))

RECURSIVE visitRoots(_, _, _)
visitRoots(v, roots, i) ==
    IF i > Len(roots) THEN v
    ELSE Let(visit(v, roots[i], FALSE), LAMBDA v1 : visitRoots(v1, roots, i + 1))

\* createBuildOrder: [w, order]
createBuildOrder(w, roots) ==
    Let(visitRoots([w |-> w, temporaryMarks |-> {}, permanentMarks |-> {},
                    buildOrder |-> <<>>], roots, 1),
        LAMBDA v : [w |-> v.w, order |-> v.buildOrder])

\* getBuildOrder: memoized in state.buildOrder
getBuildOrder(w) ==
    IF w.s.buildOrder # NoBuildOrder THEN w
    ELSE Let(createBuildOrder(w, w.s.rootNames),
             LAMBDA r : [r.w EXCEPT !.s.buildOrder = r.order])

\* getBuildOrderFor without the search of the project in the build order
getBuildOrderForAnyProject(w, project) ==
    Let(getBuildOrder(w), LAMBDA w1 :
        IF project # 0
        THEN Let(createBuildOrder(w1, <<project>>),
                 LAMBDA r : [w |-> r.w, order |-> r.order, valid |-> TRUE])
        ELSE [w |-> w1, order |-> w1.s.buildOrder, valid |-> TRUE])

\* getBuildOrderFor: [w, order, valid]; project = 0 is "no project argument"
getBuildOrderFor(w, project) ==
    Let(getBuildOrder(w), LAMBDA w1 :
        IF project # 0
        THEN IF IndexOf(w1.s.buildOrder, project) = 0
             THEN [w |-> w1, order |-> <<>>, valid |-> FALSE]
             ELSE Let(createBuildOrder(w1, <<project>>),
                      LAMBDA r : [w |-> r.w, order |-> r.order, valid |-> TRUE])
        ELSE [w |-> w1, order |-> w1.s.buildOrder, valid |-> TRUE])

\* ------------------------------------------------------------------ queue and cache
\* enableCache / disableCache: only whether state.cache is set is modelled.
enableCache(w) == [w EXCEPT !.s.cache = TRUE]
disableCache(w) == [w EXCEPT !.s.cache = FALSE]

clearProjectStatus(w, resolved) ==
    [w EXCEPT !.s.projectStatus[resolved] = NoStatus,
              !.s.diagnostics[resolved] = <<>>]

addProjToQueue(w, proj, reloadLevel) ==
    LET value == w.s.projectPendingBuild[proj]
    IN IF value = NotPending THEN [w EXCEPT !.s.projectPendingBuild[proj] = reloadLevel]
       ELSE IF value < reloadLevel THEN [w EXCEPT !.s.projectPendingBuild[proj] = reloadLevel]
       ELSE w

RECURSIVE SetPendingAll(_, _, _)
SetPendingAll(w, order, i) ==
    IF i > Len(order) THEN w
    ELSE Let([w EXCEPT !.s.projectPendingBuild[order[i]] = LevelNone],
             LAMBDA w1 : SetPendingAll(w1, order, i + 1))

\* setupInitialBuild, for a token that is not cancelled
setupInitialBuild(w) ==
    IF ~w.s.allProjectBuildPending THEN w
    ELSE Let(getBuildOrder(enableCache([w EXCEPT !.s.allProjectBuildPending = FALSE])),
             LAMBDA w2 : SetPendingAll(w2, w2.s.buildOrder, 1))

\* ------------------------------------------------------------------ reporting
\* A list of diagnostics is the sequence of the kinds of its diagnostics; all
\* of them are of category Error.
\* reportErrors: host.reportDiagnostic receives the diagnostics errors of
\* project proj
reportErrors(w, proj, errors) ==
    IF errors = <<>> THEN w ELSE [w EXCEPT !.h.reportDiagnostic[proj] = @ + 1]

reportAndStoreErrors(w, proj, errors) ==
    [reportErrors(w, proj, errors) EXCEPT
         !.s.projectErrorsReported = @ \cup {proj},
         !.s.diagnostics[proj] = IF errors # <<>> THEN errors ELSE @]

\* config.errors: the errors of the parse, then the "no inputs were found"
\* diagnostics of a configuration whose include patterns match nothing: one
\* from the parse and one more from every updateErrorForNoInputFiles since
ConfigErrorsOf(config) ==
    (IF config.errors THEN <<"Config">> ELSE <<>>)
        \o [i \in 1..config.errorsForNoInputFiles |-> "NoInputs"]

reportParseConfigFileDiagnostic(w, proj) == reportAndStoreErrors(w, proj, <<"ConfigFile">>)

\* ------------------------------------------------------------------ outputs
\* getAllProjectOutputs: the .js file, then the .d.ts file of a composite project
getAllProjectOutputs(config) ==
    IF ~config.files THEN <<>>
    ELSE IF config.composite THEN <<"js", "dts">> ELSE <<"js">>

isDeclarationFile(file) == file = "dts"

\* host.getModifiedTime(file) of project p's output; NoFile when it does not exist
OutputTime(h, p, file) == IF file = "js" THEN h.js[p] ELSE h.dts[p]

\* host.getModifiedTime(file) || missingFileModifiedTime
ModifiedTimeOr(t) == IF t = NoFile THEN missingFileModifiedTime ELSE t

\* host.setModifiedTime: a file that does not exist stays missing
setModifiedTime(h, p, file) ==
    LET h1 == [h EXCEPT !.touches = @ + 1]
    IN IF OutputTime(h, p, file) = NoFile THEN h1
       ELSE IF file = "js" THEN [h1 EXCEPT !.js[p] = h.now]
       ELSE [h1 EXCEPT !.dts[p] = h.now]

\* updateOutputTimestampsWorker: [w, time]; skipOutputs is a set of outputs,
\* noSkip says that the parameter was not given
RECURSIVE touchOutputs(_, _, _, _, _, _)
touchOutputs(h, p, outputs, i, skipOutputs, prior) ==
    IF i > Len(outputs) THEN [h |-> h, time |-> prior]
    ELSE IF outputs[i] \in skipOutputs
    THEN touchOutputs(h, p, outputs, i + 1, skipOutputs, prior)
    ELSE Let(IF isDeclarationFile(outputs[i])
             THEN newer(prior, ModifiedTimeOr(OutputTime(h, p, outputs[i])))
             ELSE prior,
             LAMBDA prior1 :
                 Let(setModifiedTime(h, p, outputs[i]),
                     LAMBDA h1 : touchOutputs(h1, p, outputs, i + 1, skipOutputs, prior1)))

updateOutputTimestampsWorker(w, proj, p, priorNewestUpdateTime, noSkip, skipOutputs) ==
    IF noSkip \/ Len(getAllProjectOutputs(proj)) # Cardinality(skipOutputs)
    THEN Let(touchOutputs(w.h, p, getAllProjectOutputs(proj), 1, skipOutputs,
                          priorNewestUpdateTime),
             LAMBDA r : [w |-> [w EXCEPT !.h = r.h], time |-> r.time])
    ELSE [w |-> w, time |-> priorNewestUpdateTime]

\* updateOutputTimestamps without the test of options.dry
updateOutputTimestampsIgnoresDry(w, proj, p) ==
    Let(updateOutputTimestampsWorker(w, proj, p, minimumDate, TRUE, {}),
        LAMBDA r : [r.w EXCEPT !.s.projectStatus[p] =
                                   Status("UpToDate", Undefined, r.time, 0)])

\* updateOutputTimestamps
updateOutputTimestamps(w, proj, p) ==
    IF w.s.options.dry THEN w
    ELSE Let(updateOutputTimestampsWorker(w, proj, p, minimumDate, TRUE, {}),
             LAMBDA r : [r.w EXCEPT !.s.projectStatus[p] =
                                        Status("UpToDate", Undefined, r.time, 0)])

\* ------------------------------------------------------------------ up-to-date status
\* The walk over the outputs in getUpToDateStatusWorker;
\* o = [oldestOutputFileTime, missingOutputFileName (set or not),
\*      isOutOfDateWithInputs, newestDeclarationFileContentChangedTime]
RECURSIVE walkOutputs(_, _, _, _, _, _)
walkOutputs(h, p, outputs, i, newestInputFileTime, o) ==
    IF i > Len(outputs) THEN o
    ELSE IF OutputTime(h, p, outputs[i]) = NoFile
    THEN [o EXCEPT !.missingOutputFileName = TRUE]
    ELSE Let(ModifiedTimeOr(OutputTime(h, p, outputs[i])), LAMBDA outputTime :
         Let(IF outputTime < o.oldestOutputFileTime
             THEN [o EXCEPT !.oldestOutputFileTime = outputTime]
             ELSE o,
             LAMBDA o1 :
                 IF outputTime < newestInputFileTime
                 THEN [o1 EXCEPT !.isOutOfDateWithInputs = TRUE]
                 ELSE walkOutputs(h, p, outputs, i + 1, newestInputFileTime,
                          IF isDeclarationFile(outputs[i])
                          THEN [o1 EXCEPT !.newestDeclarationFileContentChangedTime =
                                              newer(@, outputTime)]
                          ELSE o1)))

\* A configuration file as new as the oldest output counts as newer
checkConfigFileTimeOrEqual(tsconfigTime, oldestOutputFileTime) ==
    oldestOutputFileTime <= ModifiedTimeOr(tsconfigTime)

\* The comparison of checkConfigFileUpToDateStatus
checkConfigFileTime(tsconfigTime, oldestOutputFileTime) ==
    oldestOutputFileTime < ModifiedTimeOr(tsconfigTime)

\* checkConfigFileUpToDateStatus: TRUE when the configuration file is newer
\* than the oldest output
checkConfigFileUpToDateStatus(h, p, oldestOutputFileTime) ==
    checkConfigFileTime(h.configTime[p], oldestOutputFileTime)

\* forEach over extendedSourceFiles: the index of the first extended
\* configuration file that is newer than the oldest output, 0 if none
RECURSIVE checkExtendedConfigFiles(_, _, _)
checkExtendedConfigFiles(times, i, oldestOutputFileTime) ==
    IF i > Len(times) THEN 0
    ELSE IF checkConfigFileTime(times[i], oldestOutputFileTime) THEN i
    ELSE checkExtendedConfigFiles(times, i + 1, oldestOutputFileTime)

\* OutOfDateWithSelf with its newerInputFileName: an input file, the
\* configuration file (index 0) or an extended configuration file
OutOfDateWithSelf(file, index) ==
    [newerInputFileName |-> [file |-> file, index |-> index]]
        @@ SimpleStatus("OutOfDateWithSelf")

RECURSIVE getUpToDateStatus(_, _, _)
RECURSIVE getUpToDateStatusWorker(_, _, _)
RECURSIVE checkReferences(_, _, _, _, _)

\* An evaluator that does not look at the references
checkReferencesSkipped(a, refs, i, missingOutputFileName, oldestOutputFileTime) == a

\* The loop over project.projectReferences in getUpToDateStatusWorker;
\* a = [w, returned, status, pseudoUpToDate, usesPrepend]
checkReferences(a, refs, i, missingOutputFileName, oldestOutputFileTime) ==
    IF i > Len(refs) \/ a.returned THEN a
    ELSE Let(parseConfigFile(a.w, refs[i].path), LAMBDA w1 :
         Let(getUpToDateStatus(w1, w1.s.configFileCache[refs[i].path], refs[i].path),
             LAMBDA g :
         Let([a EXCEPT !.w = g.w, !.usesPrepend = a.usesPrepend \/ refs[i].prepend],
             LAMBDA a1 :
             IF g.status.type = "ComputingUpstream"
             THEN checkReferences(a1, refs, i + 1, missingOutputFileName,
                                  oldestOutputFileTime)
             ELSE IF g.status.type = "Unbuildable"
             THEN [a1 EXCEPT !.returned = TRUE,
                             !.status = Status("UpstreamBlocked", Undefined, Undefined,
                                               refs[i].path)]
             ELSE IF g.status.type # "UpToDate"
             THEN [a1 EXCEPT !.returned = TRUE,
                             !.status = Status("UpstreamOutOfDate", Undefined, Undefined,
                                               refs[i].path)]
             ELSE IF missingOutputFileName
             THEN checkReferences(a1, refs, i + 1, missingOutputFileName,
                                  oldestOutputFileTime)
             ELSE IF g.status.newestInputFileTime # Undefined
                     /\ g.status.newestInputFileTime <= oldestOutputFileTime
             THEN checkReferences(a1, refs, i + 1, missingOutputFileName,
                                  oldestOutputFileTime)
             ELSE IF g.status.newestDeclarationFileContentChangedTime # Undefined
                     /\ g.status.newestDeclarationFileContentChangedTime
                            <= oldestOutputFileTime
             THEN Let([a1 EXCEPT !.pseudoUpToDate = TRUE],
                      LAMBDA a2 : checkReferences(a2, refs, i + 1, missingOutputFileName,
                                                  oldestOutputFileTime))
             ELSE [a1 EXCEPT !.returned = TRUE,
                             !.status = Status("OutOfDateWithUpstream", Undefined, Undefined,
                                               refs[i].path)])))

\* getUpToDateStatusWorker: [w, status]
getUpToDateStatusWorker(w, project, resolvedPath) ==
    IF project.files /\ w.h.input[resolvedPath] = NoFile
    THEN [w |-> w, status |-> SimpleStatus("Unbuildable")]
    ELSE IF ~project.files /\ ~project.noInputsError
    THEN [w |-> w, status |-> SimpleStatus("ContainerOnly")]
    ELSE
    Let(IF project.files /\ ModifiedTimeOr(w.h.input[resolvedPath]) > minimumDate
        THEN ModifiedTimeOr(w.h.input[resolvedPath]) ELSE minimumDate,
        LAMBDA newestInputFileTime :
    Let(walkOutputs(w.h, resolvedPath, getAllProjectOutputs(project), 1, newestInputFileTime,
            [oldestOutputFileTime |-> maximumDate, missingOutputFileName |-> FALSE,
             isOutOfDateWithInputs |-> FALSE,
             newestDeclarationFileContentChangedTime |-> minimumDate]),
        LAMBDA o :
    Let(IF project.refs # <<>>
        THEN checkReferences(
                 [w |-> [w EXCEPT !.s.projectStatus[resolvedPath] =
                                      SimpleStatus("ComputingUpstream")],
                  returned |-> FALSE, status |-> NoStatus,
                  pseudoUpToDate |-> FALSE, usesPrepend |-> FALSE],
                 project.refs, 1, o.missingOutputFileName, o.oldestOutputFileTime)
        ELSE [w |-> w, returned |-> FALSE, status |-> NoStatus,
              pseudoUpToDate |-> FALSE, usesPrepend |-> FALSE],
        LAMBDA a :
        IF a.returned THEN [w |-> a.w, status |-> a.status]
        ELSE IF o.missingOutputFileName
        THEN [w |-> a.w, status |-> SimpleStatus("OutputMissing")]
        ELSE IF o.isOutOfDateWithInputs
        THEN [w |-> a.w, status |-> OutOfDateWithSelf("input", 0)]
        ELSE IF checkConfigFileUpToDateStatus(w.h, resolvedPath, o.oldestOutputFileTime)
        THEN [w |-> a.w, status |-> OutOfDateWithSelf("config", 0)]
        ELSE IF checkExtendedConfigFiles(w.h.extendedConfigTimes[resolvedPath], 1,
                                         o.oldestOutputFileTime) # 0
        THEN [w |-> a.w,
              status |-> OutOfDateWithSelf(
                             "extended",
                             checkExtendedConfigFiles(w.h.extendedConfigTimes[resolvedPath],
                                                      1, o.oldestOutputFileTime))]
        ELSE
        Let([a.w EXCEPT !.s.buildInfoChecked = @ \cup {resolvedPath}], LAMBDA w2 :
            IF resolvedPath \notin a.w.s.buildInfoChecked
               /\ project.incremental /\ w.h.buildInfo[resolvedPath] = "old"
            THEN [w |-> w2, status |-> SimpleStatus("TsVersionOutputOfDate")]
            ELSE IF a.usesPrepend /\ a.pseudoUpToDate
            THEN [w |-> w2, status |-> SimpleStatus("OutOfDateWithPrepend")]
            ELSE [w |-> w2,
                  status |-> Status(IF a.pseudoUpToDate THEN "UpToDateWithUpstreamTypes"
                                    ELSE "UpToDate",
                                    newestInputFileTime,
                                    o.newestDeclarationFileContentChangedTime, 0)]))))

\* getUpToDateStatus: [w, status]; project is the configFileCache entry
\* state.projectStatus.set(resolvedPath, actual) of getUpToDateStatus
storeStatusNowhere(r, resolvedPath) == r

storeStatus(r, resolvedPath) ==
    [w |-> [r.w EXCEPT !.s.projectStatus[resolvedPath] = r.status], status |-> r.status]

getUpToDateStatus(w, project, resolvedPath) ==
    IF ~isParsedCommandLine(project)
    THEN [w |-> w, status |-> SimpleStatus("Unbuildable")]
    ELSE IF w.s.projectStatus[resolvedPath] # NoStatus
    THEN [w |-> w, status |-> w.s.projectStatus[resolvedPath]]
    ELSE storeStatus(getUpToDateStatusWorker(w, project, resolvedPath), resolvedPath)

\* ------------------------------------------------------------------ project actions
\* buildErrors: [w, result]
buildErrors(w, resolvedPath, diagnostics, errorFlags) ==
    [w |-> [reportAndStoreErrors(w, resolvedPath, diagnostics)
               EXCEPT !.s.projectStatus[resolvedPath] = SimpleStatus("Unbuildable")],
     result |-> errorFlags]

\* host.writeFile of an emitted output of project p; the write fails (and
\* gives an emit diagnostic) when the host cannot write the project's files
writeFile(h, p, file) ==
    LET h1 == [h EXCEPT !.writes = @ + 1]
    IN IF h.sourceError[p] = "Emit" THEN h1
       ELSE IF file = "js" THEN [h1 EXCEPT !.js[p] = h.now]
       ELSE [h1 EXCEPT !.dts[p] = h.now, !.dtsText[p] = h.declText[p]]

\* outputFiles.forEach of buildSingleProject;
\* e = [h, anyDtsChanged, newestDeclarationFileContentChangedTime]
RECURSIVE emitOutputs(_, _, _, _)

\* The loop as it would be with writeFile inside the test: no writeFile for a
\* declaration file found unchanged
emitOutputsKeepsUnchanged(e, p, outputFiles, i) ==
    IF i > Len(outputFiles) THEN e
    ELSE Let(~e.anyDtsChanged /\ isDeclarationFile(outputFiles[i]), LAMBDA checked :
         Let(checked /\ e.h.dts[p] # NoFile /\ e.h.dtsText[p] = e.h.declText[p],
             LAMBDA unchanged :
         Let([h |-> IF unchanged THEN e.h ELSE writeFile(e.h, p, outputFiles[i]),
              anyDtsChanged |-> e.anyDtsChanged \/ (checked /\ ~unchanged),
              newestDeclarationFileContentChangedTime |->
                  IF unchanged
                  THEN newer(e.h.dts[p], e.newestDeclarationFileContentChangedTime)
                  ELSE e.newestDeclarationFileContentChangedTime],
             LAMBDA e1 : emitOutputs(e1, p, outputFiles, i + 1))))

emitOutputs(e, p, outputFiles, i) ==
    IF i > Len(outputFiles) THEN e
    ELSE Let(~e.anyDtsChanged /\ isDeclarationFile(outputFiles[i]), LAMBDA checked :
         Let(checked /\ e.h.dts[p] # NoFile /\ e.h.dtsText[p] = e.h.declText[p],
             LAMBDA unchanged :
         Let([h |-> writeFile(e.h, p, outputFiles[i]),
              anyDtsChanged |-> e.anyDtsChanged \/ (checked /\ ~unchanged),
              newestDeclarationFileContentChangedTime |->
                  IF unchanged
                  THEN newer(e.h.dts[p], e.newestDeclarationFileContentChangedTime)
                  ELSE e.newestDeclarationFileContentChangedTime],
             LAMBDA e1 : emitOutputs(e1, p, outputFiles, i + 1))))

\* The diagnostics of the program created for project p, by stage:
\* configuration, options, global and syntactic ones (a listed input file
\* that does not exist is reported among them), then semantic ones, then
\* those of declaration emit.
\* A program that reports nothing for an input file that does not exist
ProgramSyntaxDiagnosticsOfExistingFiles(h, p, config) ==
    ConfigErrorsOf(config)
        \o (IF h.sourceError[p] = "Syntactic" THEN <<"Syntactic">> ELSE <<>>)

\* A program that leaves the diagnostics of the configuration file out
ProgramSyntaxDiagnosticsOfSourceFiles(h, p, config) ==
    (IF h.input[p] = NoFile THEN <<"File not found">> ELSE <<>>)
        \o (IF h.sourceError[p] = "Syntactic" THEN <<"Syntactic">> ELSE <<>>)

ProgramSyntaxDiagnostics(h, p, config) ==
    ConfigErrorsOf(config)
        \o (IF h.input[p] = NoFile THEN <<"File not found">> ELSE <<>>)
        \o (IF h.sourceError[p] = "Syntactic" THEN <<"Syntactic">> ELSE <<>>)

ProgramSemanticDiagnostics(h, p) ==
    IF h.sourceError[p] = "Semantic" THEN <<"Semantic">> ELSE <<>>

ProgramDeclarationDiagnostics(h, p) ==
    IF h.sourceError[p] = "Declaration file" THEN <<"Declaration file">> ELSE <<>>

\* buildSingleProject: [w, result]
buildSingleProject(w, resolvedPath, config) ==
    IF w.s.options.dry THEN [w |-> w, result |-> {"Success"}]
    ELSE IF ~config.files
    THEN [w |-> reportAndStoreErrors(w, resolvedPath, ConfigErrorsOf(config)), result |-> {}]
    ELSE IF ProgramSyntaxDiagnostics(w.h, resolvedPath, config) # <<>>
    THEN buildErrors(w, resolvedPath, ProgramSyntaxDiagnostics(w.h, resolvedPath, config),
                     {"SyntaxErrors"})
    ELSE IF ProgramSemanticDiagnostics(w.h, resolvedPath) # <<>>
    THEN buildErrors(w, resolvedPath, ProgramSemanticDiagnostics(w.h, resolvedPath),
                     {"TypeErrors"})
    ELSE IF ProgramDeclarationDiagnostics(w.h, resolvedPath) # <<>>
    THEN buildErrors(w, resolvedPath, ProgramDeclarationDiagnostics(w.h, resolvedPath),
                     {"DeclarationEmitErrors"})
    ELSE
    Let(emitOutputs([h |-> w.h, anyDtsChanged |-> FALSE,
                     newestDeclarationFileContentChangedTime |-> minimumDate],
                    resolvedPath, getAllProjectOutputs(config), 1),
        LAMBDA e :
        \* emitterDiagnostics: one diagnostic for every output file the host
        \* could not write, the build info file of an incremental program
        \* among them
        IF w.h.sourceError[resolvedPath] = "Emit"
        THEN buildErrors([w EXCEPT !.h = e.h], resolvedPath,
                         [i \in 1..(Len(getAllProjectOutputs(config))
                                        + IF config.incremental THEN 1 ELSE 0) |-> "Emit"],
                         {"EmitErrors"})
        ELSE
        Let(updateOutputTimestampsWorker(
                [w EXCEPT !.h = [e.h EXCEPT !.buildInfo[resolvedPath] =
                                     IF config.incremental THEN "current" ELSE @]],
                config, resolvedPath, e.newestDeclarationFileContentChangedTime, FALSE,
                SeqToSet(getAllProjectOutputs(config))),
            LAMBDA r :
            [w |-> [r.w EXCEPT
                       !.s.diagnostics[resolvedPath] = <<>>,
                       !.s.projectStatus[resolvedPath] =
                           Status("UpToDate", Undefined,
                                  IF e.anyDtsChanged THEN maximumDate ELSE r.time, 0)],
             result |-> IF e.anyDtsChanged THEN {}
                        ELSE {"DeclarationOutputUnchanged"}]))

\* updateBundle: [w, result, unreadable]; unreadable is the string result
\* (the build info could not be read).  emitUsingBuildInfo emits the .js file.
updateBundle(w, resolvedPath, config) ==
    IF w.s.options.dry THEN [w |-> w, result |-> {"Success"}, unreadable |-> FALSE]
    ELSE IF w.h.buildInfo[resolvedPath] = "none"
    THEN [w |-> w, result |-> {}, unreadable |-> TRUE]
    ELSE
    Let([w EXCEPT !.h = writeFile(@, resolvedPath, "js")], LAMBDA w1 :
        IF w.h.sourceError[resolvedPath] = "Emit"
        THEN buildErrors(w1, resolvedPath, <<"Emit">>, {"EmitErrors"}) @@ [unreadable |-> FALSE]
        ELSE
        Let(updateOutputTimestampsWorker(w1, config, resolvedPath, minimumDate, FALSE,
                                         {"js"}),
            LAMBDA r :
            [w |-> [r.w EXCEPT
                       !.s.diagnostics[resolvedPath] = <<>>,
                       !.s.projectStatus[resolvedPath] =
                           Status("UpToDate", Undefined, r.time, 0)],
             result |-> {"DeclarationOutputUnchanged"},
             unreadable |-> FALSE]))

\* The switch on the downstream status in queueReferencingProjects
DownstreamStatus(w, nextProjectPath, projectPath, ref, buildResult) ==
    LET status == w.s.projectStatus[nextProjectPath]
        unchanged == "DeclarationOutputUnchanged" \in buildResult
    IN IF status.type = "UpToDate" /\ unchanged
       THEN IF ref.prepend
            THEN [w EXCEPT !.s.projectStatus[nextProjectPath] =
                               SimpleStatus("OutOfDateWithPrepend")]
            ELSE [w EXCEPT !.s.projectStatus[nextProjectPath].type =
                               "UpToDateWithUpstreamTypes"]
       ELSE IF status.type \in {"UpToDate", "UpToDateWithUpstreamTypes", "OutOfDateWithPrepend"}
       THEN IF ~unchanged
            THEN [w EXCEPT !.s.projectStatus[nextProjectPath] =
                               Status("OutOfDateWithUpstream", Undefined, Undefined, projectPath)]
            ELSE w
       ELSE IF status.type = "UpstreamBlocked"
       THEN IF status.upstreamProjectName = projectPath
            THEN clearProjectStatus(w, nextProjectPath)
            ELSE w
       ELSE w

\* The loop over buildOrder in queueReferencingProjects
RECURSIVE queueLater(_, _, _, _, _)
queueLater(w, projectPath, index, buildOrder, buildResult) ==
    IF index > Len(buildOrder) THEN w
    ELSE IF w.s.projectPendingBuild[buildOrder[index]] # NotPending
    THEN queueLater(w, projectPath, index + 1, buildOrder, buildResult)
    ELSE
    Let(parseConfigFile(w, buildOrder[index]), LAMBDA w1 :
    Let(w1.s.configFileCache[buildOrder[index]], LAMBDA nextProjectConfig :
    Let({k \in 1..Len(nextProjectConfig.refs) :
            nextProjectConfig.refs[k].path = projectPath},
        LAMBDA refIndexes :
        IF ~isParsedCommandLine(nextProjectConfig) \/ refIndexes = {}
        THEN queueLater(w1, projectPath, index + 1, buildOrder, buildResult)
        ELSE
        Let(addProjToQueue(
                DownstreamStatus(w1, buildOrder[index], projectPath,
                    nextProjectConfig.refs[
                        CHOOSE k \in refIndexes : \A j \in refIndexes : k <= j],
                    buildResult),
                buildOrder[index], LevelNone),
            LAMBDA w2 : queueLater(w2, projectPath, index + 1, buildOrder, buildResult)))))

\* queueReferencingProjects without the test of the error flags
queueReferencingProjectsDespiteErrors(w, projectPath, projectIndex, config, buildOrder, buildResult) ==
    IF ~config.composite THEN w
    ELSE queueLater(w, projectPath, projectIndex + 1, buildOrder, buildResult)

\* queueReferencingProjects
queueReferencingProjects(w, projectPath, projectIndex, config, buildOrder, buildResult) ==
    IF buildResult \cap AnyErrors # {} THEN w
    ELSE IF ~config.composite THEN w
    ELSE queueLater(w, projectPath, projectIndex + 1, buildOrder, buildResult)

\* ------------------------------------------------------------------ watchers
watchConfigFile(w, resolvedPath) ==
    IF ~w.s.watch \/ resolvedPath \in w.s.allWatchedConfigFiles THEN w
    ELSE [w EXCEPT !.s.allWatchedConfigFiles = @ \cup {resolvedPath}]

\* Only a configuration with include patterns has wildcard directories.
watchWildCardDirectories(w, resolvedPath, parsed) ==
    IF ~w.s.watch THEN w
    ELSE IF parsed.noInputsError
    THEN [w EXCEPT !.s.allWatchedWildcardDirectories = @ \cup {resolvedPath}]
    ELSE [w EXCEPT !.s.allWatchedWildcardDirectories = @ \ {resolvedPath}]

watchInputFiles(w, resolvedPath, parsed) ==
    IF ~w.s.watch THEN w
    ELSE IF parsed.files
    THEN [w EXCEPT !.s.allWatchedInputFiles = @ \cup {resolvedPath}]
    ELSE [w EXCEPT !.s.allWatchedInputFiles = @ \ {resolvedPath}]

\* ------------------------------------------------------------------ invalidated projects
\* needsBuild without the test of config.errors
needsBuildIgnoresErrors(options, status, config) ==
    IF status.type # "OutOfDateWithPrepend" \/ options.force THEN TRUE
    ELSE ~config.files \/ ~config.incremental

\* needsBuild without the test of options.force
needsBuildIgnoresForce(options, status, config) ==
    IF status.type # "OutOfDateWithPrepend" THEN TRUE
    ELSE ~config.files \/ HasConfigErrors(config) \/ ~config.incremental

needsBuild(options, status, config) ==
    IF status.type # "OutOfDateWithPrepend" \/ options.force THEN TRUE
    ELSE ~config.files \/ HasConfigErrors(config) \/ ~config.incremental

\* An entry of the log: what the factory did with a project.
LogEntry(project, index, kind, status, result) ==
    [project |-> project, index |-> index, kind |-> kind, status |-> status,
     result |-> result]

Logged(w, project, index, kind, status, result) ==
    [w EXCEPT !.log = Append(@, LogEntry(project, index, kind, status, result))]

NoHandle == [kind |-> "none", project |-> 0, index |-> 0, status |-> "none"]

\* The reload level applied by getNextInvalidatedProject.  At the Partial
\* level the file names are read again and updateErrorForNoInputFiles works on
\* config.errors in place: it pushes one more "no inputs were found"
\* diagnostic when the include patterns match nothing (whether or not the
\* list holds one already) and removes them all otherwise.
applyReloadLevel(w, projectPath, reloadLevel) ==
    Let(w.s.configFileCache[projectPath], LAMBDA config :
        IF reloadLevel = LevelFull
        THEN watchInputFiles(
                 watchWildCardDirectories(watchConfigFile(w, projectPath), projectPath, config),
                 projectPath, config)
        ELSE IF reloadLevel = LevelPartial
        THEN Let(IF config.noInputsError THEN w.h.input[projectPath] # NoFile
                 ELSE config.files,
                 LAMBDA fileNames :
             Let([config EXCEPT
                      !.files = fileNames,
                      !.errorsForNoInputFiles =
                          IF ~fileNames /\ config.noInputsError THEN @ + 1 ELSE 0],
                 LAMBDA config1 :
                     watchInputFiles([w EXCEPT !.s.configFileCache[projectPath] = config1],
                                     projectPath, config1)))
        ELSE w)

\* getNextInvalidatedProject: [w, handle]
RECURSIVE nextInvalidated(_, _, _)

\* skipInvalidated without projectPendingBuild.delete
skipInvalidatedKeepsPending(w, buildOrder, projectIndex, why, type) ==
    Let(Logged(w, buildOrder[projectIndex], projectIndex, why, type, {}),
        LAMBDA w1 : nextInvalidated(w1, buildOrder, projectIndex + 1))

\* The project at projectIndex leaves the queue without an action
skipInvalidated(w, buildOrder, projectIndex, why, type) ==
    Let(Logged([w EXCEPT !.s.projectPendingBuild[buildOrder[projectIndex]] = NotPending],
               buildOrder[projectIndex], projectIndex, why, type, {}),
        LAMBDA w1 : nextInvalidated(w1, buildOrder, projectIndex + 1))

nextInvalidated(w, buildOrder, projectIndex) ==
    IF projectIndex > Len(buildOrder) THEN [w |-> w, handle |-> NoHandle]
    ELSE IF w.s.projectPendingBuild[buildOrder[projectIndex]] = NotPending
    THEN nextInvalidated(w, buildOrder, projectIndex + 1)
    ELSE
    Let(buildOrder[projectIndex], LAMBDA projectPath :
    Let(parseConfigFile(w, projectPath), LAMBDA w1 :
        IF ~isParsedCommandLine(w1.s.configFileCache[projectPath])
        THEN skipInvalidated(reportParseConfigFileDiagnostic(w1, projectPath),
                             buildOrder, projectIndex, "SkipUnparsed", "none")
        ELSE
        Let(applyReloadLevel(w1, projectPath, w.s.projectPendingBuild[projectPath]),
            LAMBDA w2 :
        Let(w2.s.configFileCache[projectPath], LAMBDA config :
        Let(getUpToDateStatus(w2, config, projectPath), LAMBDA g :
        Let(reportAndStoreErrors(g.w, projectPath, ConfigErrorsOf(config)), LAMBDA w3 :
            IF ~w.s.options.force /\ g.status.type = "UpToDate"
            THEN skipInvalidated(w3, buildOrder, projectIndex, "SkipUpToDate",
                                 g.status.type)
            ELSE IF ~w.s.options.force /\ g.status.type = "UpToDateWithUpstreamTypes"
            THEN [w |-> w3,
                  handle |-> [kind |-> "UpdateOutputFileStamps", project |-> projectPath,
                              index |-> projectIndex, status |-> g.status.type]]
            ELSE IF g.status.type = "UpstreamBlocked"
            THEN skipInvalidated(w3, buildOrder, projectIndex, "SkipUpstreamBlocked",
                                 g.status.type)
            ELSE IF g.status.type = "ContainerOnly"
            THEN skipInvalidated(w3, buildOrder, projectIndex, "SkipContainerOnly",
                                 g.status.type)
            ELSE [w |-> g.w,
                  handle |-> [kind |-> IF needsBuild(w.s.options, g.status, config)
                                       THEN "Build" ELSE "UpdateBundle",
                              project |-> projectPath, index |-> projectIndex,
                              status |-> g.status.type]]))))))

getNextInvalidatedProject(w, buildOrder) ==
    IF \A p \in Proj : w.s.projectPendingBuild[p] = NotPending
    THEN [w |-> w, handle |-> NoHandle]
    ELSE nextInvalidated(w, buildOrder, 1)

\* doneBuild without projectPendingBuild.delete
doneBuildKeepsPending(w, handle, buildOrder) ==
    Let(w.s.configFileCache[handle.project], LAMBDA config :
    Let(buildSingleProject(w, handle.project, config), LAMBDA b :
    Let(queueReferencingProjects(b.w, handle.project, handle.index, config, buildOrder,
                                 b.result),
        LAMBDA w1 :
            Logged(w1, handle.project, handle.index, "Build", handle.status, b.result))))

\* done() of a Build handle (createBuildInvalidedProject)
doneBuild(w, handle, buildOrder) ==
    Let(w.s.configFileCache[handle.project], LAMBDA config :
    Let(buildSingleProject(w, handle.project, config), LAMBDA b :
    Let(queueReferencingProjects(b.w, handle.project, handle.index, config, buildOrder,
                                 b.result),
        LAMBDA w1 :
            Logged([w1 EXCEPT !.s.projectPendingBuild[handle.project] = NotPending],
                   handle.project, handle.index, "Build", handle.status, b.result))))

\* done() of an UpdateBundle handle that gives up when the build info is
\* unreadable
doneUpdateBundleGivesUp(w, handle, buildOrder) ==
    Let(w.s.configFileCache[handle.project], LAMBDA config :
    Let(updateBundle(w, handle.project, config), LAMBDA u :
        IF u.unreadable
        THEN [u.w EXCEPT !.s.projectPendingBuild[handle.project] = NotPending]
        ELSE
        Let(queueReferencingProjects(u.w, handle.project, handle.index, config, buildOrder,
                                     u.result),
            LAMBDA w1 :
                Logged([w1 EXCEPT !.s.projectPendingBuild[handle.project] = NotPending],
                       handle.project, handle.index, "UpdateBundle", handle.status,
                       u.result))))

\* done() of an UpdateBundle handle (createUpdateBundleProject)
doneUpdateBundle(w, handle, buildOrder) ==
    Let(w.s.configFileCache[handle.project], LAMBDA config :
    Let(updateBundle(w, handle.project, config), LAMBDA u :
        IF u.unreadable THEN doneBuild(u.w, handle, buildOrder)
        ELSE
        Let(queueReferencingProjects(u.w, handle.project, handle.index, config, buildOrder,
                                     u.result),
            LAMBDA w1 :
                Logged([w1 EXCEPT !.s.projectPendingBuild[handle.project] = NotPending],
                       handle.project, handle.index, "UpdateBundle", handle.status,
                       u.result))))

\* done() of an UpdateOutputFileStamps handle (createUpdateOutputFileStampsProject)
doneUpdateOutputFileStamps(w, handle) ==
    Let(updateOutputTimestamps(w, w.s.configFileCache[handle.project], handle.project),
        LAMBDA w1 :
            Logged([w1 EXCEPT !.s.projectPendingBuild[handle.project] = NotPending],
                   handle.project, handle.index, "UpdateOutputFileStamps", handle.status,
                   {}))

\* invalidatedProject.done()
done(w, handle, buildOrder) ==
    IF handle.kind = "Build" THEN doneBuild(w, handle, buildOrder)
    ELSE IF handle.kind = "UpdateBundle" THEN doneUpdateBundle(w, handle, buildOrder)
    ELSE doneUpdateOutputFileStamps(w, handle)

\* ------------------------------------------------------------------ summary, watching
\* reportErrorSummary; h.reportErrorSummary and h.onWatchStatusChange are
\* whether the host provides the optional functions
RECURSIVE reportOtherProjects(_, _, _)

\* reportOtherProjects without the test of projectErrorsReported
reportOtherProjectsAgain(w, order, i) ==
    IF i > Len(order) THEN w
    ELSE reportOtherProjects(reportErrors(w, order[i], w.s.diagnostics[order[i]]),
                             order, i + 1)

\* getBuildOrder(state).forEach of reportErrorSummary: the diagnostics of the
\* projects not reported yet go to the host
reportOtherProjects(w, order, i) ==
    IF i > Len(order) THEN w
    ELSE reportOtherProjects(
             IF order[i] \notin w.s.projectErrorsReported
             THEN reportErrors(w, order[i], w.s.diagnostics[order[i]])
             ELSE w,
             order, i + 1)

\* getErrorCountForSummary: the number of diagnostics of category Error
getErrorCountForSummary(errors) == Len(errors)

\* diagnostics.forEach of reportErrorSummary
RECURSIVE totalErrors(_, _)
totalErrors(diagnostics, projects) ==
    IF projects = {} THEN 0
    ELSE Let(CHOOSE p \in projects : TRUE, LAMBDA p :
             getErrorCountForSummary(diagnostics[p])
                 + totalErrors(diagnostics, projects \ {p}))

\* reportErrorSummary whose total leaves out the projects reported before
reportErrorSummaryOfOthers(w) ==
    IF ~w.s.needsSummary \/ (~w.s.watch /\ ~w.h.reportErrorSummary) THEN w
    ELSE Let(getBuildOrder([w EXCEPT !.s.needsSummary = FALSE]), LAMBDA w1 :
         Let(reportOtherProjects(w1, w1.s.buildOrder, 1), LAMBDA w2 :
             IF w2.s.watch /\ ~w2.h.onWatchStatusChange THEN w2
             ELSE [w2 EXCEPT !.h.errorSummary =
                       totalErrors(w2.s.diagnostics, Proj \ w2.s.projectErrorsReported)]))

\* errorSummary is the total handed to host.reportErrorSummary or, in watch
\* mode, by reportWatchStatus to onWatchStatusChange when the host provides it
reportErrorSummary(w) ==
    IF ~w.s.needsSummary \/ (~w.s.watch /\ ~w.h.reportErrorSummary) THEN w
    ELSE Let(getBuildOrder([w EXCEPT !.s.needsSummary = FALSE]), LAMBDA w1 :
         Let(reportOtherProjects(w1, w1.s.buildOrder, 1), LAMBDA w2 :
             IF w2.s.watch /\ ~w2.h.onWatchStatusChange THEN w2
             ELSE [w2 EXCEPT !.h.errorSummary = totalErrors(w2.s.diagnostics, Proj)]))

RECURSIVE watchAll(_, _, _)
watchAll(w, order, i) ==
    IF i > Len(order) THEN w
    ELSE Let(parseConfigFile(watchConfigFile(w, order[i]), order[i]), LAMBDA w1 :
         Let(w1.s.configFileCache[order[i]], LAMBDA cfg :
         Let(IF isParsedCommandLine(cfg)
             THEN watchInputFiles(watchWildCardDirectories(w1, order[i], cfg), order[i], cfg)
             ELSE w1,
             LAMBDA w2 : watchAll(w2, order, i + 1))))

startWatching(w) ==
    IF ~w.s.watchAllProjectsPending THEN w
    ELSE Let(getBuildOrder([w EXCEPT !.s.watchAllProjectsPending = FALSE]),
             LAMBDA w1 : watchAll(w1, w1.s.buildOrder, 1))

\* ------------------------------------------------------------------ invalidation, clean
\* invalidateProject that evicts the configuration at every reload level
invalidateProjectEvictsAlways(w, resolved, reloadLevel) ==
    Let([w EXCEPT !.s.configFileCache[resolved] = NoConfig, !.s.buildOrder = NoBuildOrder],
        LAMBDA w1 :
    Let(clearProjectStatus([w1 EXCEPT !.s.needsSummary = TRUE], resolved), LAMBDA w2 :
        enableCache(addProjToQueue(w2, resolved, reloadLevel))))

invalidateProject(w, resolved, reloadLevel) ==
    Let(IF reloadLevel = LevelFull
        THEN [w EXCEPT !.s.configFileCache[resolved] = NoConfig,
                       !.s.buildOrder = NoBuildOrder]
        ELSE w,
        LAMBDA w1 :
    Let(clearProjectStatus([w1 EXCEPT !.s.needsSummary = TRUE], resolved), LAMBDA w2 :
        enableCache(addProjToQueue(w2, resolved, reloadLevel))))

\* host.deleteFile of an output of project p
deleteFile(h, p, file) ==
    IF file = "js" THEN [h EXCEPT !.deletes = @ + 1, !.js[p] = NoFile]
    ELSE [h EXCEPT !.deletes = @ + 1, !.dts[p] = NoFile]

\* The loop over the outputs of one project in clean
RECURSIVE cleanOutputs(_, _, _, _)

cleanOutputs(w, resolvedPath, outputs, i) ==
    IF i > Len(outputs) THEN w
    ELSE IF OutputTime(w.h, resolvedPath, outputs[i]) # NoFile /\ ~w.s.options.dry
    THEN Let(invalidateProject([w EXCEPT !.h = deleteFile(@, resolvedPath, outputs[i])],
                               resolvedPath, LevelNone),
             LAMBDA w1 : cleanOutputs(w1, resolvedPath, outputs, i + 1))
    ELSE cleanOutputs(w, resolvedPath, outputs, i + 1)

RECURSIVE cleanProjects(_, _, _)
cleanProjects(w, buildOrder, i) ==
    IF i > Len(buildOrder) THEN w
    ELSE Let(parseConfigFile(w, buildOrder[i]), LAMBDA w1 :
         Let(IF ~isParsedCommandLine(w1.s.configFileCache[buildOrder[i]])
             THEN reportParseConfigFileDiagnostic(w1, buildOrder[i])
             ELSE cleanOutputs(w1, buildOrder[i],
                               getAllProjectOutputs(w1.s.configFileCache[buildOrder[i]]), 1),
             LAMBDA w2 : cleanProjects(w2, buildOrder, i + 1)))

\* clean: [w, exit]
clean(w, project) ==
    Let(getBuildOrderFor(w, project), LAMBDA r :
        IF ~r.valid THEN [w |-> r.w, exit |-> "InvalidProject_OutputsSkipped"]
        ELSE [w |-> cleanProjects(r.w, r.order, 1), exit |-> "Success"])

\* ------------------------------------------------------------------ build
\* build(), the part up to the loop: [w, order, valid]
buildBegin(w, project) ==
    Let(getBuildOrderFor(w, project), LAMBDA r :
        IF ~r.valid THEN r ELSE [r EXCEPT !.w = setupInitialBuild(r.w)])

\* The part after the loop without startWatching
buildEndWithoutWatching(w) == reportErrorSummary(disableCache(w))

\* build(), the part after the loop
buildEnd(w) ==
    Let(reportErrorSummary(disableCache(w)), LAMBDA w1 : startWatching(w1))

\* buildExit that does not look at successfulProjects
buildExitOutputsSkipped(successfulProjects, errorProjects) ==
    IF errorProjects > 0 THEN "DiagnosticsPresent_OutputsSkipped" ELSE "Success"

\* The ExitStatus build() returns
buildExit(successfulProjects, errorProjects) ==
    IF errorProjects > 0
    THEN IF successfulProjects > 0 THEN "DiagnosticsPresent_OutputsGenerated"
         ELSE "DiagnosticsPresent_OutputsSkipped"
    ELSE "Success"

\* buildNextProject without setupInitialBuild
buildNextProjectWithoutSetup(w) ==
    Let(getBuildOrder(w), LAMBDA w1 :
    Let(getNextInvalidatedProject(w1, w1.s.buildOrder), LAMBDA g :
        IF g.handle.kind = "none" THEN [w |-> g.w, project |-> 0, exit |-> "none"]
        ELSE
        Let(done(g.w, g.handle, w1.s.buildOrder), LAMBDA w2 :
            [w |-> w2, project |-> g.handle.project,
             exit |-> IF w2.s.diagnostics[g.handle.project] # <<>>
                      THEN "DiagnosticsPresent_OutputsSkipped" ELSE "Success"])))

\* buildNextProject: [w, project, exit]; project = 0 when it returns undefined
buildNextProject(w) ==
    Let(getBuildOrder(setupInitialBuild(w)), LAMBDA w1 :
    Let(getNextInvalidatedProject(w1, w1.s.buildOrder), LAMBDA g :
        IF g.handle.kind = "none" THEN [w |-> g.w, project |-> 0, exit |-> "none"]
        ELSE
        Let(done(g.w, g.handle, w1.s.buildOrder), LAMBDA w2 :
            [w |-> w2, project |-> g.handle.project,
             exit |-> IF w2.s.diagnostics[g.handle.project] # <<>>
                      THEN "DiagnosticsPresent_OutputsSkipped" ELSE "Success"])))

\* ------------------------------------------------------------------ watch mode
\* hostWithWatch.setTimeout and clearTimeout: timeouts counts the timers that
\* are outstanding
setTimeout(w) == [w EXCEPT !.s.hostWithWatch.timeouts = @ + 1]

clearTimeout(w) == [w EXCEPT !.s.hostWithWatch.timeouts = @ - 1]

\* The host runs the callback of a timer: the timer is no longer outstanding.
timeoutElapsed(w) == [w EXCEPT !.s.hostWithWatch.timeouts = @ - 1]

\* scheduleBuildInvalidatedProject without clearTimeout
scheduleWithoutClearTimeout(w) ==
    IF ~w.h.setTimeout \/ ~w.h.clearTimeout THEN w
    ELSE [setTimeout(w) EXCEPT !.s.timerToBuildInvalidatedProject = TRUE]

\* h.setTimeout and h.clearTimeout are whether the host provides the optional
\* functions
scheduleBuildInvalidatedProject(w) ==
    IF ~w.h.setTimeout \/ ~w.h.clearTimeout THEN w
    ELSE
    Let(IF w.s.timerToBuildInvalidatedProject THEN clearTimeout(w) ELSE w, LAMBDA w1 :
        [setTimeout(w1) EXCEPT !.s.timerToBuildInvalidatedProject = TRUE])

invalidateProjectAndScheduleBuilds(w, resolvedPath, reloadLevel) ==
    scheduleBuildInvalidatedProject(
        invalidateProject([w EXCEPT !.s.reportFileChangeDetected = TRUE],
                          resolvedPath, reloadLevel))

\* buildNextInvalidatedProject that never sets the next timer
buildNextInvalidatedProjectOnly(w) ==
    Let(getBuildOrder(
            [w EXCEPT !.s.timerToBuildInvalidatedProject = FALSE,
                      !.s.reportFileChangeDetected = FALSE,
                      !.s.projectErrorsReported =
                          IF w.s.reportFileChangeDetected THEN {} ELSE @]),
        LAMBDA w3 :
    Let(getNextInvalidatedProject(w3, w3.s.buildOrder), LAMBDA g :
        IF g.handle.kind = "none" THEN reportErrorSummary(disableCache(g.w))
        ELSE
        Let(done(g.w, g.handle, w3.s.buildOrder), LAMBDA w4 :
            IF \E p \in Proj : w4.s.projectPendingBuild[p] # NotPending
            THEN w4
            ELSE reportErrorSummary(disableCache(w4)))))

buildNextInvalidatedProject(w) ==
    Let(getBuildOrder(
            [w EXCEPT !.s.timerToBuildInvalidatedProject = FALSE,
                      !.s.reportFileChangeDetected = FALSE,
                      !.s.projectErrorsReported =
                          IF w.s.reportFileChangeDetected THEN {} ELSE @]),
        LAMBDA w3 :
    Let(getNextInvalidatedProject(w3, w3.s.buildOrder), LAMBDA g :
        IF g.handle.kind = "none" THEN reportErrorSummary(disableCache(g.w))
        ELSE
        Let(done(g.w, g.handle, w3.s.buildOrder), LAMBDA w4 :
            IF \E p \in Proj : w4.s.projectPendingBuild[p] # NotPending
            THEN IF w4.s.watch /\ ~w4.s.timerToBuildInvalidatedProject
                 THEN scheduleBuildInvalidatedProject(w4)
                 ELSE w4
            ELSE reportErrorSummary(disableCache(w4)))))

\* ------------------------------------------------------------------ state
VARIABLES
    state,   \* the SolutionBuilderState of the builder
    host,    \* the host: configuration files, input and output files, clock, calls received
    pc,      \* "idle", or "build" while build() is in its loop
    call,    \* the locals of the running or last build(): project, buildOrder, counters
    trace,   \* what the factory did with each project during the running or last call
    last,    \* the last call completed and what it returned
    ops      \* number of calls and edits made so far

vars == <<state, host, pc, call, trace, last, ops>>

W == [s |-> state, h |-> host, log |-> trace]

\* The host at the start of a call: the call counters start at zero.
Fresh(h) == [h EXCEPT !.writes = 0, !.touches = 0, !.deletes = 0, !.circularReports = 0,
                     !.reportDiagnostic = [p \in Proj |-> 0],
                     !.errorSummary = Undefined]

Wstart == [s |-> state, h |-> Fresh(host), log |-> <<>>]

\* The start of a call that goes on with what calls of the same kind began:
\* the log is kept.
Wnext(op) == [s |-> state, h |-> Fresh(host), log |-> IF last.op = op THEN trace ELSE <<>>]

Becomes(w) ==
    /\ state' = w.s
    /\ host' = w.h
    /\ trace' = w.log

NoCall == [project |-> 0, buildOrder |-> <<>>, successfulProjects |-> 0, errorProjects |-> 0,
           after |-> "none", cleaned |-> {}, fresh |-> FALSE]

Done(op, project, exit) == [op |-> op, project |-> project, exit |-> exit]

\* ------------------------------------------------------------------ initial states
Options(dry, force) == [dry |-> dry, force |-> force]

\* Reference lists: no project twice, at most MaxRefs references
RefLists(paths, prepends, circulars) ==
    UNION {{[i \in 1..Len(ps) |-> Ref(ps[i], pr[i], ci[i])] :
                pr \in [1..Len(ps) -> prepends], ci \in [1..Len(ps) -> circulars]} :
           ps \in DistinctSeqs(paths, MaxRefs)}

\* The host over configuration files config, with every input file written at
\* time 1, no output yet, and source errors err.
InitialHost(config, inputs, err) ==
    [config |-> config,
     input |-> inputs,
     js |-> [p \in Proj |-> NoFile],
     dts |-> [p \in Proj |-> NoFile],
     dtsText |-> [p \in Proj |-> 0],
     declText |-> [p \in Proj |-> 0],
     sourceError |-> err,
     configTime |-> [p \in Proj |-> 1],
     extendedConfigTimes |-> [p \in Proj |-> <<>>],
     buildInfo |-> [p \in Proj |-> "none"],
     now |-> 1,
     writes |-> 0, touches |-> 0, deletes |-> 0, circularReports |-> 0,
     reportDiagnostic |-> [p \in Proj |-> 0],
     errorSummary |-> Undefined,
     reportErrorSummary |-> TRUE, onWatchStatusChange |-> TRUE,
     setTimeout |-> TRUE, clearTimeout |-> TRUE]

InitWith(hosts, roots, options, watches) ==
    /\ host \in hosts
    /\ \E r \in roots, o \in options, wt \in watches :
           state = createSolutionBuilderState(wt, r, o)
    /\ pc = "idle"
    /\ call = NoCall
    /\ trace = <<>>
    /\ last = Done("create", 0, "none")
    /\ ops = 0

\* ------------------------------------------------------------------ calls
\* getBuildOrder()
GetBuildOrder ==
    /\ pc = "idle" /\ ops < MaxOps
    /\ Becomes(getBuildOrder(Wstart))
    /\ last' = Done("getBuildOrder", 0, "none")
    /\ ops' = ops + 1
    /\ UNCHANGED <<pc, call>>

\* build(project) up to its loop
Build(project) ==
    /\ pc = "idle" /\ ops < MaxOps
    /\ \E r \in {buildBegin(Wstart, project)} :
          /\ Becomes(r.w)
          /\ IF r.valid
             THEN /\ pc' = "build"
                  /\ call' = [NoCall EXCEPT !.project = project, !.buildOrder = r.order,
                                            !.after = last.op,
                                            !.cleaned = IF last.op = "clean" THEN call.cleaned
                                                        ELSE {},
                                            !.fresh = call.fresh]
                  /\ last' = last
             ELSE /\ pc' = "idle"
                  /\ call' = NoCall
                  /\ last' = Done("build", project, "InvalidProject_OutputsSkipped")
    /\ ops' = ops + 1

\* One turn of the loop of build() in which the factory returns a project
BuildProject ==
    /\ pc = "build"
    /\ \E g \in {getNextInvalidatedProject(W, call.buildOrder)} :
          /\ g.handle.kind # "none"
          /\ \E w1 \in {done(g.w, g.handle, call.buildOrder)} :
                 /\ Becomes(w1)
                 /\ call' = IF w1.s.diagnostics[g.handle.project] # <<>>
                            THEN [call EXCEPT !.errorProjects = @ + 1]
                            ELSE [call EXCEPT !.successfulProjects = @ + 1]
    /\ UNCHANGED <<pc, last, ops>>

\* The last turn of the loop of build(), and its return
BuildReturn ==
    /\ pc = "build"
    /\ \E g \in {getNextInvalidatedProject(W, call.buildOrder)} :
          /\ g.handle.kind = "none"
          /\ Becomes(buildEnd(g.w))
    /\ pc' = "idle"
    /\ last' = Done("build", call.project,
                    buildExit(call.successfulProjects, call.errorProjects))
    /\ UNCHANGED <<call, ops>>

\* buildNextProject()
BuildNextProject ==
    /\ pc = "idle" /\ ops < MaxOps
    /\ \E r \in {buildNextProject(Wnext("buildNextProject"))} :
          /\ Becomes(r.w)
          /\ last' = Done("buildNextProject", r.project, r.exit)
    /\ call' = NoCall
    /\ ops' = ops + 1
    /\ UNCHANGED pc

\* clean(project)
Clean(project) ==
    /\ pc = "idle" /\ ops < MaxOps
    /\ \E r \in {clean(Wstart, project)} :
          /\ Becomes(r.w)
          /\ last' = Done("clean", project, r.exit)
          /\ call' = [NoCall EXCEPT !.cleaned =
                         {p \in Proj : host.js[p] # r.w.h.js[p] \/ host.dts[p] # r.w.h.dts[p]}]
    /\ ops' = ops + 1
    /\ UNCHANGED pc

\* invalidateProject(configFilePath, reloadLevel)
InvalidateProject(p, reloadLevel) ==
    /\ pc = "idle" /\ ops < MaxOps
    /\ Becomes(invalidateProject(Wstart, p, reloadLevel))
    /\ last' = Done("invalidateProject", p, "none")
    /\ call' = NoCall
    /\ ops' = ops + 1
    /\ UNCHANGED pc

\* A new builder is created over the same host and roots, with options.  A
\* builder cannot be closed: the timers it set and the watchers it opened stay
\* with the host and call back into it, and while its cache is enabled
\* (after buildNextProject or invalidateProject; build() ends with
\* disableCache) the host's readFile, fileExists, directoryExists,
\* createDirectory and writeFile are the caching wrappers of enableCache,
\* which a later builder, whose state.cache is undefined, never takes off.
\* One builder is modelled, so the new one is created only over a host on
\* which the former builder has left no timer, no watcher and no cache:
\* there the host answers as the file system does.
NewBuilder(options) ==
    /\ pc = "idle" /\ ops < MaxOps
    /\ ~state.cache
    /\ state.hostWithWatch.timeouts = 0
    /\ state.allWatchedConfigFiles = {}
    /\ state.allWatchedWildcardDirectories = {}
    /\ state.allWatchedInputFiles = {}
    /\ state' = createSolutionBuilderState(state.watch, state.rootNames, options)
    /\ host' = Fresh(host)
    /\ trace' = <<>>
    /\ call' = [NoCall EXCEPT !.fresh =
                   /\ last.op = "build" /\ last.project = 0 /\ last.exit = "Success"
                   /\ ~state.options.dry]
    /\ last' = Done("create", 0, "none")
    /\ ops' = ops + 1
    /\ UNCHANGED pc

\* The user edits the input file of project p: the clock has advanced, the
\* file gets the new time, and its declarations and errors may change.
EditInput(p, text, err) ==
    /\ pc = "idle" /\ ops < MaxOps
    /\ host.now < MaxClock
    /\ host.input[p] # NoFile
    /\ host' = [host EXCEPT !.now = @ + 1, !.input[p] = host.now + 1,
                            !.declText[p] = text, !.sourceError[p] = err]
    /\ last' = Done("edit", p, "none")
    /\ call' = NoCall
    /\ ops' = ops + 1
    /\ UNCHANGED <<state, pc, trace>>

\* The watcher of an input file of project p calls back after the file was
\* edited.
InputFileWatcher(p) ==
    /\ pc = "idle"
    /\ state.watch /\ p \in state.allWatchedInputFiles
    /\ last.op = "edit" /\ last.project = p
    /\ Becomes(invalidateProjectAndScheduleBuilds(Wstart, p, LevelNone))
    /\ last' = Done("watch", p, "none")
    /\ UNCHANGED <<pc, call, ops>>

\* A timer set by scheduleBuildInvalidatedProject fires.
TimerToBuildInvalidatedProject ==
    /\ pc = "idle"
    /\ state.hostWithWatch.timeouts > 0
    /\ Becomes(buildNextInvalidatedProject(timeoutElapsed(Wnext("timer"))))
    /\ last' = Done("timer", 0, "none")
    /\ call' = NoCall
    /\ UNCHANGED <<pc, ops>>

\* buildNextInvalidatedProject() of the solution builder, called directly
BuildNextInvalidatedProject ==
    /\ pc = "idle" /\ ops < MaxOps
    /\ Becomes(buildNextInvalidatedProject(Wnext("buildNextInvalidatedProject")))
    /\ last' = Done("buildNextInvalidatedProject", 0, "none")
    /\ call' = NoCall
    /\ ops' = ops + 1
    /\ UNCHANGED pc

\* ------------------------------------------------------------------ the solution builder
\* A library, an application over references, a container of references
Lib == ParsedConfig(<<>>, TRUE, TRUE, TRUE, FALSE, FALSE)

App(refs) == ParsedConfig(refs, TRUE, TRUE, TRUE, FALSE, FALSE)

Container(refs) == ParsedConfig(refs, FALSE, TRUE, TRUE, FALSE, FALSE)

\* Solutions of three projects: project 1 is a library or has a configuration
\* that does not parse; project 2 uses it, prepends it, or is a container
\* over it; project 3 is the root and references project 2, or both.
SolutionConfigs ==
    {<<c1, c2, c3>> :
        c1 \in {Lib, ConfigDiagnostic},
        c2 \in {App(<<Ref(1, FALSE, FALSE)>>), App(<<Ref(1, TRUE, FALSE)>>),
                Container(<<Ref(1, FALSE, FALSE)>>)},
        c3 \in {App(<<Ref(2, FALSE, FALSE)>>),
                App(<<Ref(2, FALSE, FALSE), Ref(1, FALSE, FALSE)>>)}}

SolutionErrors == {<<"", "", "">>, <<"Semantic", "", "">>}

SolutionHosts ==
    {InitialHost(config, [p \in Proj |-> 1], err) :
        config \in SolutionConfigs, err \in SolutionErrors}

AllOptions == {Options(dry, force) : dry \in BOOLEAN, force \in BOOLEAN}

Init == InitWith(SolutionHosts, {<<3>>}, AllOptions, BOOLEAN)

BuildArgs == {0, 2}

EditErrors == {"", "Semantic"}

Next ==
    \/ GetBuildOrder
    \/ \E project \in BuildArgs : Build(project)
    \/ BuildProject
    \/ BuildReturn
    \/ BuildNextProject
    \/ Clean(0)
    \/ \E reloadLevel \in Levels : InvalidateProject(1, reloadLevel)
    \/ \E options \in AllOptions : NewBuilder(options)
    \/ \E text \in {0, 1}, err \in EditErrors : EditInput(1, text, err)
    \/ InputFileWatcher(1)
    \/ TimerToBuildInvalidatedProject
    \/ BuildNextInvalidatedProject

Spec == Init /\ [][Next]_vars

\* ------------------------------------------------------------------ the reference graph
\* The reference graph as parseConfigFile gives it: the cached configuration
\* of a project, or the file on disk when nothing is cached.
ParsedOf(a) ==
    IF state.configFileCache[a].kind # "absent" THEN state.configFileCache[a]
    ELSE ParseDisk(host, a)

Edge(a, b) ==
    /\ ParsedOf(a).kind = "parsed"
    /\ \E i \in 1..Len(ParsedOf(a).refs) : ParsedOf(a).refs[i].path = b

FlaggedEdge(a, b) ==
    /\ ParsedOf(a).kind = "parsed"
    /\ \E i \in 1..Len(ParsedOf(a).refs) :
           ParsedOf(a).refs[i].path = b /\ ParsedOf(a).refs[i].circular

\* Projects reachable from the set S over references
RECURSIVE ReachFrom(_)
ReachFrom(S) ==
    LET T == S \cup {b \in Proj : \E a \in S : Edge(a, b)}
    IN IF T = S THEN S ELSE ReachFrom(T)

Reachable == ReachFrom(SeqToSet(state.rootNames))

\* The simple cycles among the reachable projects, each written from its
\* smallest project.
SimpleCycles ==
    {c \in DistinctSeqs(Reachable, Cardinality(Proj)) :
        /\ c # <<>>
        /\ \A i \in 2..Len(c) : c[1] < c[i]
        /\ \A i \in 1..Len(c) : Edge(c[i], c[(i % Len(c)) + 1])}

Acyclic == SimpleCycles = {}

\* A reference flagged circular from which a project of a cycle can be reached
FlaggedEdgeLeadsToCycle ==
    \E a \in Reachable, b \in Proj, c \in SimpleCycles :
        FlaggedEdge(a, b) /\ SeqToSet(c) \cap ReachFrom({b}) # {}

OrderComputed == state.buildOrder # NoBuildOrder

\* ------------------------------------------------------------------ build order alone
\* Every reference graph over the projects, any configuration unparseable,
\* any reference flagged circular; the only call is getBuildOrder().
OrderConfigs ==
    {ConfigDiagnostic} \cup
    {ParsedConfig(refs, TRUE, TRUE, TRUE, FALSE, FALSE) :
        refs \in RefLists(Proj, {FALSE}, BOOLEAN)}

OrderRoots == {<<3>>, <<1, 2, 3>>}

InitOrder ==
    InitWith({InitialHost(config, [p \in Proj |-> 1], [p \in Proj |-> ""]) :
                 config \in [Proj -> OrderConfigs]},
             OrderRoots, {Options(FALSE, FALSE)}, {FALSE})

FirstGetBuildOrder == ~OrderComputed /\ GetBuildOrder

NextOrder == FirstGetBuildOrder

SpecOrder == InitOrder /\ [][NextOrder]_vars

\* C2: in an acyclic reference graph, every referenced project comes before
\* the project that references it in the order getBuildOrder() returns, also
\* when the referenced project's configuration cannot be parsed.
C2_ReferencedProjectsFirst ==
    (OrderComputed /\ Acyclic) =>
        \A a \in Reachable, b \in Proj :
            Edge(a, b) =>
                /\ IndexOf(state.buildOrder, a) > 0
                /\ IndexOf(state.buildOrder, b) > 0
                /\ IndexOf(state.buildOrder, b) < IndexOf(state.buildOrder, a)

C2_Witness ==
    /\ OrderComputed /\ Acyclic
    /\ \E a \in Reachable, b, c \in Proj :
           /\ Edge(a, b) /\ Edge(b, c) /\ Edge(a, c)
           /\ host.config[c].kind = "diag"
           /\ state.buildOrder = <<c, b, a>>

\* C3 as claimed: a reachable cycle none of whose references is flagged
\* circular gives exactly one circular-graph diagnostic.
UnflaggedCycle ==
    \E c \in SimpleCycles : \A i \in 1..Len(c) : ~FlaggedEdge(c[i], c[(i % Len(c)) + 1])

C3_ExactlyOneDiagnostic ==
    (OrderComputed /\ UnflaggedCycle) => host.circularReports = 1

\* C3 amended: the computation ends with every reachable project once in the
\* order; an acyclic graph gives no diagnostic; a graph with exactly one
\* cycle, not reachable through a reference flagged circular, gives exactly
\* one; several cycles give at least one when no cycle is reachable through
\* a flagged reference.
C3_OneDiagnosticPerSingleCycle ==
    OrderComputed =>
        /\ Len(state.buildOrder) = Cardinality(Reachable)
        /\ SeqToSet(state.buildOrder) = Reachable
        /\ Acyclic => host.circularReports = 0
        /\ (~Acyclic /\ ~FlaggedEdgeLeadsToCycle) => host.circularReports >= 1
        /\ (Cardinality(SimpleCycles) = 1 /\ ~FlaggedEdgeLeadsToCycle)
               => host.circularReports = 1

C3_Witness ==
    /\ OrderComputed
    /\ Cardinality(SimpleCycles) = 1
    /\ \E c \in SimpleCycles : Len(c) = 3
    /\ ~FlaggedEdgeLeadsToCycle
    /\ host.circularReports = 1

\* ------------------------------------------------------------------ what a call did
ActionKinds == {"Build", "UpdateBundle", "UpdateOutputFileStamps"}

\* The positions of the log at which an action was executed
Acted == {i \in 1..Len(trace) : trace[i].kind \in ActionKinds}

ActedOn(p) == \E i \in Acted : trace[i].project = p

BuiltProject(p) == \E i \in 1..Len(trace) : trace[i].kind = "Build" /\ trace[i].project = p

\* build() has returned normally and nothing was called since
BuildReturned ==
    /\ pc = "idle"
    /\ last.op = "build"
    /\ last.exit \notin {"InvalidProject_OutputsSkipped", "OperationCanceled"}

Pending(p) == state.projectPendingBuild[p] # NotPending

\* C1: within one build() the projects acted on are strictly increasing in
\* build-order index, projects queued by queueReferencingProjects included.
C1_ActionsFollowBuildOrder ==
    \A i, j \in Acted :
        i < j => /\ trace[i].index < trace[j].index
                 /\ trace[i].project # trace[j].project

C1_Witness ==
    /\ BuildReturned
    /\ call.after = "invalidateProject"
    /\ Cardinality(Acted) = 3
    /\ C1_ActionsFollowBuildOrder

\* C4 as claimed: after build() returns, every project of the full order has
\* the status UpToDate, UpToDateWithUpstreamTypes, Unbuildable or
\* UpstreamBlocked, or projectPendingBuild is empty.
C4_SettledOrQueueEmpty ==
    BuildReturned =>
        \/ \A p \in Proj : ~Pending(p)
        \/ \A p \in SeqToSet(state.buildOrder) :
               state.projectStatus[p].type \in
                   {"UpToDate", "UpToDateWithUpstreamTypes", "Unbuildable", "UpstreamBlocked"}

\* C4 amended: after build() returns, no project of the order the call went
\* through (the whole order, or the order of the project given) is pending;
\* without a project argument projectPendingBuild is empty.
C4_IteratedOrderNotPending ==
    BuildReturned =>
        /\ \A p \in SeqToSet(call.buildOrder) : ~Pending(p)
        /\ call.project = 0 => \A p \in Proj : ~Pending(p)

C4_Witness ==
    /\ BuildReturned
    /\ call.project = 2
    /\ Pending(3)
    /\ state.projectStatus[3] = NoStatus
    /\ Acted # {}

\* C5: after a build() that returned Success, the build() of a new builder
\* over the unchanged files gets no action from the factory and calls neither
\* writeFile nor setModifiedTime.
C5_SecondBuildDoesNothing ==
    (/\ BuildReturned
     /\ call.fresh /\ call.after = "create" /\ call.project = 0
     /\ ~state.options.force /\ ~state.options.dry)
        => /\ Acted = {}
           /\ host.writes = 0
           /\ host.touches = 0

\* The second build() rebuilds a project that references a container: the
\* status ContainerOnly of the container is not UpToDate.
C5_ContainerReferenceRebuilt ==
    /\ BuildReturned
    /\ call.fresh /\ call.after = "create" /\ call.project = 0
    /\ ~state.options.force /\ ~state.options.dry
    /\ \E i \in Acted :
           /\ trace[i].kind = "Build"
           /\ trace[i].status = "UpstreamOutOfDate"
           /\ \E b \in Proj :
                  /\ Edge(trace[i].project, b)
                  /\ state.projectStatus[b].type = "ContainerOnly"
    /\ host.writes > 0

\* C6: no step lowers the reload level of a project that stays pending.
C6_ReloadLevelNeverLowered ==
    [][\A p \in Proj :
          (Pending(p) /\ state'.projectPendingBuild[p] # NotPending)
              => state'.projectPendingBuild[p] >= state.projectPendingBuild[p]]_vars

\* ------------------------------------------------------------------ clean, force, dry
Buildable(p) == host.config[p].kind = "parsed" /\ host.config[p].files

\* C7: on a builder that is not dry, the build() that follows clean() executes
\* a Build action for every project of the build order that has input files,
\* from whatever state the earlier calls left.
C7_CleanThenBuildRebuildsAll ==
    (/\ BuildReturned
     /\ call.after = "clean" /\ call.project = 0
     /\ ~state.options.dry)
        => \A p \in SeqToSet(call.buildOrder) : Buildable(p) => BuiltProject(p)

\* The build() after clean() does not visit a project that has input files
\* without errors, no output, and the status Unbuildable of an earlier build().
C7_FailedProjectNotRetried ==
    /\ BuildReturned
    /\ call.after = "clean" /\ call.project = 0
    /\ ~state.options.dry
    /\ \E p \in SeqToSet(call.buildOrder) :
           /\ Buildable(p)
           /\ host.sourceError[p] = ""
           /\ host.js[p] = NoFile
           /\ state.projectStatus[p].type = "Unbuildable"
           /\ \A i \in 1..Len(trace) : trace[i].project # p

\* C8 as claimed: with options.force, build() executes a Build action for
\* every project of the build order that has input files, whatever its status.
C8_ForceBuildsEveryProject ==
    (/\ BuildReturned
     /\ call.project = 0
     /\ state.options.force)
        => \A p \in SeqToSet(call.buildOrder) : Buildable(p) => BuiltProject(p)

\* C8 amended: with options.force, every project the factory takes from the
\* queue gets a Build action, whatever its status, unless its configuration
\* file does not parse or its status is UpstreamBlocked or ContainerOnly; it
\* is never skipped as up to date and never gets UpdateBundle or
\* UpdateOutputFileStamps. The first build() of a builder takes every project
\* from the queue.
C8_ForceBuildsWhatItDequeues ==
    state.options.force =>
        /\ \A i \in 1..Len(trace) :
               /\ trace[i].kind \in {"Build", "SkipUnparsed", "SkipUpstreamBlocked",
                                     "SkipContainerOnly"}
               /\ trace[i].status \notin {"none", "UpstreamBlocked", "ContainerOnly"}
                      => trace[i].kind = "Build"
        /\ (BuildReturned /\ call.after = "create" /\ call.project = 0) =>
               \A p \in SeqToSet(call.buildOrder) :
                   Buildable(p) =>
                       \E i \in 1..Len(trace) :
                           /\ trace[i].project = p
                           /\ trace[i].kind \in {"Build", "SkipUpstreamBlocked"}

C8_Witness ==
    /\ state.options.force
    /\ BuildReturned
    /\ \E i \in Acted : trace[i].kind = "Build" /\ trace[i].status = "UpToDate"
    /\ \E i \in Acted : trace[i].kind = "Build" /\ trace[i].status = "OutOfDateWithPrepend"

\* ------------------------------------------------------------------ unchanged declarations
OldestOutput(p) == IF host.js[p] < host.dts[p] THEN host.js[p] ELSE host.dts[p]

\* The log has a Build of project a that left its declaration files as they were
RebuiltUnchanged(a) ==
    \E i \in 1..Len(trace) :
        /\ trace[i].project = a
        /\ trace[i].kind = "Build"
        /\ "DeclarationOutputUnchanged" \in trace[i].result

\* b references a, and no reference of b is a prepend
ReferencesPlainly(b, a) ==
    /\ Edge(b, a)
    /\ \A k \in 1..Len(ParsedOf(b).refs) : ~ParsedOf(b).refs[k].prepend

\* Nothing but a stands between b and UpToDate: b has its outputs, none of
\* them older than its input file, its configuration file or the declaration
\* file of a.
OtherwiseUpToDate(b, a) ==
    /\ Buildable(b)
    /\ ~host.config[b].errors /\ ~host.config[b].noInputsError
    /\ host.js[b] # NoFile /\ host.dts[b] # NoFile
    /\ host.input[b] # NoFile /\ host.input[b] <= OldestOutput(b)
    /\ host.configTime[b] <= OldestOutput(b)
    /\ host.buildInfo[b] # "old"
    /\ host.dts[a] # NoFile /\ host.dts[a] <= OldestOutput(b)

\* After the step the references of b other than a are UpToDate, with
\* declarations no newer than the outputs of b.
OtherReferencesUpToDate(b, a) ==
    \A k \in 1..Len(host.config[b].refs) :
        LET c == host.config[b].refs[k].path
        IN c # a => /\ state'.projectStatus[c].type = "UpToDate"
                    /\ state'.projectStatus[c].newestDeclarationFileContentChangedTime
                           <= OldestOutput(b)

\* The entries a step adds to the log
NewEntries == (Len(trace) + 1)..Len(trace')

\* The step is a Build of a that leaves its declaration files as they were
BuildsUnchanged(a) ==
    \E k \in NewEntries :
        /\ trace'[k].project = a
        /\ trace'[k].kind = "Build"
        /\ "DeclarationOutputUnchanged" \in trace'[k].result

\* The build order a step goes through: that of the running build(), or the
\* whole order in buildNextProject and in a rebuild from a watcher.
StepOrder == IF pc = "build" THEN call.buildOrder ELSE state'.buildOrder

\* The status getUpToDateStatus gives for p: the cached one, or a fresh one
StatusBefore(p) == getUpToDateStatus(W, state.configFileCache[p], p).status.type
StatusAfter(p) ==
    getUpToDateStatus([s |-> state', h |-> host', log |-> trace'],
                      state'.configFileCache[p], p).status.type

\* C10: with force off, when a Build of a composite project A leaves A's
\* declaration files unchanged and B references A and has no prepend
\* reference, then B, if its status was cached as UpToDate, is marked
\* UpToDateWithUpstreamTypes and queued; B, if it has no cached status and is
\* otherwise up to date, is evaluated as UpToDateWithUpstreamTypes; and the
\* next thing the factory does with such a B is the action
\* UpdateOutputFileStamps, not a Build.
C10_UnchangedDeclarationsOnlyStamp ==
    [][~state.options.force =>
        \A a, b \in Proj :
            (ReferencesPlainly(b, a) /\ ParsedOf(a).composite) =>
                /\ (/\ BuildsUnchanged(a)
                    /\ state.projectStatus[b].type = "UpToDate")
                       => /\ state'.projectStatus[b].type = "UpToDateWithUpstreamTypes"
                          /\ state'.projectPendingBuild[b] # NotPending
                /\ (/\ BuildsUnchanged(a)
                    /\ state.projectStatus[b] = NoStatus
                    /\ isParsedCommandLine(state.configFileCache[b])
                    /\ OtherwiseUpToDate(b, a)
                    /\ OtherReferencesUpToDate(b, a))
                       => StatusAfter(b) = "UpToDateWithUpstreamTypes"
                /\ (/\ RebuiltUnchanged(a)
                    /\ isParsedCommandLine(state.configFileCache[b])
                    /\ StatusBefore(b) = "UpToDateWithUpstreamTypes")
                       => \A k \in NewEntries :
                              trace'[k].project = b
                                  => trace'[k].kind = "UpdateOutputFileStamps"
      ]_vars

\* build(2) rebuilt project 1 with unchanged declarations; project 3, which
\* references project 1 and is not in the order of that call, kept its cached
\* UpToDate status, is not queued, and its outputs are older than the
\* declaration file of project 1, which the Build wrote again.
C10_ReferencingProjectLeftUnstamped ==
    /\ BuildReturned /\ call.project = 2
    /\ ~state.options.force /\ ~state.options.dry
    /\ RebuiltUnchanged(1)
    /\ ReferencesPlainly(3, 1)
    /\ state.projectStatus[3].type = "UpToDate"
    /\ ~Pending(3)
    /\ \A i \in 1..Len(trace) : trace[i].project # 3
    /\ host.dts[1] > OldestOutput(3)

\* The part of C10 that holds: the cached UpToDate status of B becomes
\* UpToDateWithUpstreamTypes, and B is queued, when B comes later in the
\* order the call goes through and is not queued when the build of A
\* finishes (it was not queued before, and the step is not the one in which
\* setupInitialBuild queues every project).
C10_UnqueuedDownstreamOnlyStamp ==
    [][~state.options.force =>
        \A a, b \in Proj :
            (/\ ReferencesPlainly(b, a)
             /\ BuildsUnchanged(a)
             /\ \E i, j \in 1..Len(StepOrder) :
                    i < j /\ StepOrder[i] = a /\ StepOrder[j] = b
             /\ ~Pending(b) /\ ~state.allProjectBuildPending
             /\ state.projectStatus[b].type = "UpToDate")
                => /\ state'.projectStatus[b].type = "UpToDateWithUpstreamTypes"
                   /\ state'.projectPendingBuild[b] # NotPending
      ]_vars

\* B's status was evaluated afresh by a new builder and B was only stamped
C10_Witness ==
    /\ BuildReturned
    /\ call.after = "create"
    /\ \E a, b \in Proj :
           /\ RebuiltUnchanged(a)
           /\ ReferencesPlainly(b, a)
           /\ \E i \in Acted : trace[i].project = b /\ trace[i].kind = "UpdateOutputFileStamps"

\* B's status was cached as UpToDate
C10_WitnessCached ==
    /\ last.op \in {"build", "timer", "buildNextProject"}
    /\ call.after # "create"
    /\ \A p \in Proj : state.projectStatus[p].type = "UpToDate"
    /\ \E a, b \in Proj :
           /\ RebuiltUnchanged(a)
           /\ ReferencesPlainly(b, a)
           /\ \E i \in Acted : trace[i].project = b /\ trace[i].kind = "UpdateOutputFileStamps"

\* ------------------------------------------------------------------ builders over files on disk
\* The host of InitialHost after an earlier run wrote, at time 1, the outputs
\* of the projects of built that have input files.
BuiltHost(config, inputs, err, built) ==
    LET wrote == {p \in built : config[p].kind = "parsed" /\ config[p].files}
    IN [InitialHost(config, inputs, err) EXCEPT
           !.js = [p \in Proj |-> IF p \in wrote THEN 1 ELSE NoFile],
           !.dts = [p \in Proj |-> IF p \in wrote /\ config[p].composite THEN 1 ELSE NoFile],
           !.buildInfo = [p \in Proj |-> IF p \in wrote /\ config[p].incremental
                                         THEN "current" ELSE "none"]]

\* Project 1 is a library, with or without errors in its configuration file;
\* project 2 references it, with or without prepend, composite or neither
\* composite nor incremental (a composite project is incremental), with or
\* without configuration errors; project 3 references both, in either order.
DiskConfigs ==
    {<<c1, c2, c3>> :
        c1 \in {Lib, [Lib EXCEPT !.errors = TRUE]},
        c2 \in {App(<<Ref(1, TRUE, FALSE)>>),
                [App(<<Ref(1, TRUE, FALSE)>>) EXCEPT !.composite = FALSE,
                                                     !.incremental = FALSE],
                [App(<<Ref(1, TRUE, FALSE)>>) EXCEPT !.errors = TRUE],
                App(<<Ref(1, FALSE, FALSE)>>)},
        c3 \in {App(<<Ref(2, FALSE, FALSE), Ref(1, FALSE, FALSE)>>),
                App(<<Ref(1, FALSE, FALSE), Ref(2, FALSE, FALSE)>>)}}

DiskErrors == {<<"", "", "">>, <<"Semantic", "", "">>}

\* The build info file of project 2 may have been lost since.
DiskHosts ==
    {[BuiltHost(config, inputs, err, built) EXCEPT
         !.buildInfo[2] = IF lost THEN "none" ELSE @] :
        config \in DiskConfigs, inputs \in {<<1, 1, 1>>, <<NoFile, 1, 1>>}, err \in DiskErrors,
        built \in {{}, Proj}, lost \in BOOLEAN}

InitDisk ==
    InitWith(DiskHosts, {<<3>>}, {Options(FALSE, force) : force \in BOOLEAN}, BOOLEAN)

NextDisk ==
    \/ Build(0)
    \/ BuildProject
    \/ BuildReturn
    \/ InvalidateProject(1, LevelNone)
    \/ \E text \in {0, 1} : EditInput(1, text, "")

SpecDisk == InitDisk /\ [][NextDisk]_vars

\* ------------------------------------------------------------------ dry builders
\* Dry builders over the files an earlier run left.  Project 1 is a library
\* with or without declaration output; project 2 references it; project 3
\* references project 2, or prepends project 1.  Nothing is built, or every
\* project was built at time 1; after that, project 1 alone may have been
\* edited and built again at time 2.
DryHosts ==
    {IF built # {} /\ again
     THEN [BuiltHost(<<c1, c2, c3>>, <<1, 1, 1>>, <<"", "", "">>, built) EXCEPT
              !.now = 2, !.input[1] = 2, !.js[1] = 2,
              !.dts[1] = IF c1.composite THEN 2 ELSE NoFile]
     ELSE BuiltHost(<<c1, c2, c3>>, <<1, 1, 1>>, <<"", "", "">>, built) :
        c1 \in {Lib, [Lib EXCEPT !.composite = FALSE, !.incremental = FALSE]},
        c2 \in {App(<<Ref(1, FALSE, FALSE)>>)},
        c3 \in {App(<<Ref(2, FALSE, FALSE)>>), App(<<Ref(1, TRUE, FALSE)>>)},
        built \in {{}, Proj}, again \in BOOLEAN}

InitDry ==
    InitWith(DryHosts, {<<3>>, <<2, 3>>}, {Options(TRUE, force) : force \in BOOLEAN},
             BOOLEAN)

NextDry ==
    \/ Build(0)
    \/ BuildProject
    \/ BuildReturn
    \/ BuildNextProject
    \/ Clean(0)
    \/ InvalidateProject(1, LevelNone)
    \/ \E text \in {0, 1} : EditInput(1, text, "")
    \/ InputFileWatcher(1)
    \/ TimerToBuildInvalidatedProject

SpecDry == InitDry /\ [][NextDry]_vars

\* C9: with options.dry no call (build, buildNextProject, clean, a rebuild
\* from a watcher) reaches writeFile, setModifiedTime or deleteFile; each call
\* handles a project at most once and leaves the projects it handled out of
\* projectPendingBuild.
C9_DryTouchesNothing ==
    state.options.dry =>
        /\ host.writes = 0
        /\ host.touches = 0
        /\ host.deletes = 0
        /\ \A i \in 1..Len(trace) : ~Pending(trace[i].project)
        /\ \A i, j \in 1..Len(trace) : trace[i].project = trace[j].project => i = j

\* A dry build() that was handed an UpdateOutputFileStamps handle for one
\* project and an UpdateBundle handle for another
C9_Witness ==
    /\ state.options.dry
    /\ BuildReturned
    /\ \E i \in Acted : trace[i].kind = "UpdateOutputFileStamps"
    /\ \E i \in Acted : trace[i].kind = "UpdateBundle"

\* ------------------------------------------------------------------ prepend
\* b references a with prepend
Prepends(b, a) ==
    /\ host.config[b].kind = "parsed"
    /\ \E k \in 1..Len(host.config[b].refs) :
           host.config[b].refs[k].path = a /\ host.config[b].refs[k].prepend

\* The configuration of b is error-free, incremental and lists input files
BundleConfig(b) ==
    /\ Buildable(b)
    /\ ~HasConfigErrors(host.config[b])
    /\ host.config[b].incremental

\* The entries a step adds to the log for an action
NewActions == {k \in NewEntries : trace'[k].kind \in ActionKinds}

\* C11 as claimed: the action executed for B is UpdateBundle when B references
\* A with prepend, has an error-free incremental configuration with input
\* files, force is off, and A was rebuilt with unchanged declarations while B
\* was cached UpToDate (so that B's status became OutOfDateWithPrepend); in
\* every other case the action executed is Build.
C11_BundleOrBuild ==
    [][\A k \in NewActions :
          LET b == trace'[k].project
          IN IF /\ ~state.options.force
                /\ BundleConfig(b)
                /\ state.projectStatus[b].type = "OutOfDateWithPrepend"
                /\ \E a \in Proj : Prepends(b, a) /\ RebuiltUnchanged(a)
             THEN trace'[k].kind = "UpdateBundle"
             ELSE trace'[k].kind = "Build"
      ]_vars

\* C11 amended: a Build of a composite A with unchanged declarations turns the
\* cached UpToDate of a not-pending B that references A with prepend, later in
\* the order the call goes through, into OutOfDateWithPrepend and queues B.
\* The action executed for a project is UpdateBundle exactly when force is
\* off, its status, cached or evaluated afresh, is OutOfDateWithPrepend, its
\* configuration is error-free, incremental and has input files, and its
\* build info can be read; it is UpdateOutputFileStamps exactly when force is
\* off and the status is UpToDateWithUpstreamTypes; otherwise it is Build.
C11_BundleOnlyForPrepend ==
    [][/\ \A a, b \in Proj :
              (/\ BuildsUnchanged(a)
               /\ host.config[a].composite
               /\ Prepends(b, a)
               /\ \E i, j \in 1..Len(StepOrder) :
                      i < j /\ StepOrder[i] = a /\ StepOrder[j] = b
               /\ ~Pending(b)
               /\ state.projectStatus[b].type = "UpToDate")
                  => /\ state'.projectStatus[b].type = "OutOfDateWithPrepend"
                     /\ state'.projectPendingBuild[b] # NotPending
       /\ \A k \in NewActions :
              LET b == trace'[k].project
                  e == trace'[k]
              IN /\ e.kind = "UpdateBundle" <=>
                        /\ ~state.options.force
                        /\ e.status = "OutOfDateWithPrepend"
                        /\ BundleConfig(b)
                        /\ host.buildInfo[b] # "none"
                 /\ e.kind = "UpdateOutputFileStamps" <=>
                        /\ ~state.options.force
                        /\ e.status = "UpToDateWithUpstreamTypes"
      ]_vars

\* B, cached UpToDate, got UpdateBundle after the Build of A
C11_Witness ==
    /\ BuildReturned
    /\ call.after = "invalidateProject"
    /\ \E a, b \in Proj :
           /\ Prepends(b, a)
           /\ RebuiltUnchanged(a)
           /\ \E i \in Acted :
                  /\ trace[i].project = b
                  /\ trace[i].kind = "UpdateBundle"
                  /\ trace[i].status = "OutOfDateWithPrepend"

\* ------------------------------------------------------------------ errors
\* Project b has input files and its only reference is project a
ReferencesOnly(b, a) ==
    /\ a # b
    /\ Buildable(b)
    /\ Len(host.config[b].refs) = 1
    /\ host.config[b].refs[1].path = a

\* The build of project a in the call ended on semantic diagnostics
FailedOnTypes(a) ==
    \E i \in Acted : /\ trace[i].project = a
                     /\ trace[i].kind = "Build"
                     /\ "TypeErrors" \in trace[i].result

\* C12: when build() has built a project A whose source has a semantic error
\* and project B of the order references only A, then at the return A is
\* Unbuildable with a TypeErrors result, B is UpstreamBlocked and no action was
\* executed for B, the diagnostics of A were reported exactly once, and
\* build() over the two projects returns DiagnosticsPresent_OutputsSkipped.
C12_SemanticErrorBlocksDownstream ==
    \A a, b \in Proj :
        (/\ BuildReturned
         /\ FailedOnTypes(a)
         /\ ReferencesOnly(b, a)
         /\ IndexOf(call.buildOrder, b) # 0)
        => /\ state.projectStatus[a].type = "Unbuildable"
           /\ state.projectStatus[b].type = "UpstreamBlocked"
           /\ ~ActedOn(b)
           /\ host.reportDiagnostic[a] = 1
           /\ (call.buildOrder = <<a, b>>
                   => last.exit = "DiagnosticsPresent_OutputsSkipped")

\* The entries a step adds to the log for project p
EntriesFor(p) == {k \in NewEntries : trace'[k].project = p}

\* C12 (amended): the same for a project B that is in the queue with no
\* cached status when the loop of build() reaches it after the failed build
\* of A (as in the first build() of a builder): B is evaluated
\* UpstreamBlocked and leaves the queue without an action.  At the return of
\* every build() that built A on a semantic error, A is Unbuildable and its
\* diagnostics were reported once; over the two projects, with B skipped,
\* build() returns DiagnosticsPresent_OutputsSkipped.
C12_SemanticErrorBlocksUncachedDownstream ==
    [][\A a, b \in Proj :
        /\ (/\ pc = "build"
            /\ FailedOnTypes(a)
            /\ ReferencesOnly(b, a)
            /\ IndexOf(call.buildOrder, b) # 0
            /\ Pending(b)
            /\ state.projectStatus[b] = NoStatus)
           => /\ state'.projectStatus[b].type = "UpstreamBlocked"
              /\ state'.projectPendingBuild[b] = NotPending
              /\ EntriesFor(b) # {}
              /\ \A k \in EntriesFor(b) : trace'[k].kind = "SkipUpstreamBlocked"
        /\ (pc = "build" /\ pc' = "idle" /\ FailedOnTypes(a)')
           => /\ state'.projectStatus[a].type = "Unbuildable"
              /\ host'.reportDiagnostic[a] = 1
              /\ (/\ call.buildOrder = <<a, b>>
                  /\ ReferencesOnly(b, a)
                  /\ \E i \in 1..Len(trace') : /\ trace'[i].project = b
                                               /\ trace'[i].kind = "SkipUpstreamBlocked")
                     => last'.exit = "DiagnosticsPresent_OutputsSkipped"]_vars

C12_Witness ==
    /\ BuildReturned
    /\ call.buildOrder = <<1, 2>>
    /\ FailedOnTypes(1)
    /\ ReferencesOnly(2, 1)
    /\ \E i \in 1..Len(trace) : trace[i].project = 2 /\ trace[i].kind = "SkipUpstreamBlocked"
    /\ host.reportDiagnostic[1] = 1
    /\ last.exit = "DiagnosticsPresent_OutputsSkipped"

\* ------------------------------------------------------------------ exit status
\* The projects on which the call executed an action and that have stored
\* diagnostics, and those that have none
ActedWithDiagnostics == {trace[i].project : i \in {k \in Acted : state.diagnostics[trace[k].project] # <<>>}}
ActedWithoutDiagnostics == {trace[i].project : i \in {k \in Acted : state.diagnostics[trace[k].project] = <<>>}}

\* C13: build() with a valid project argument returns Success when no project
\* it acted on ended with stored diagnostics, DiagnosticsPresent_OutputsGenerated
\* when some did and some did not, DiagnosticsPresent_OutputsSkipped when some
\* did and none did not.
C13_ExitStatusCountsActedProjects ==
    BuildReturned
    => last.exit = IF ActedWithDiagnostics = {} THEN "Success"
                   ELSE IF ActedWithoutDiagnostics # {}
                   THEN "DiagnosticsPresent_OutputsGenerated"
                   ELSE "DiagnosticsPresent_OutputsSkipped"

C13_Witness ==
    /\ BuildReturned
    /\ ActedWithDiagnostics # {}
    /\ ActedWithoutDiagnostics # {}
    /\ last.exit = "DiagnosticsPresent_OutputsGenerated"

\* C14: whenever build() returns Success, no project of the build order it
\* iterated has stored diagnostics.
C14_SuccessMeansNoDiagnostics ==
    (BuildReturned /\ last.exit = "Success")
    => \A i \in 1..Len(call.buildOrder) : state.diagnostics[call.buildOrder[i]] = <<>>

\* build() returns Success over a project whose configuration file does not parse
C14_SuccessOverUnparsedConfig ==
    /\ BuildReturned /\ last.exit = "Success"
    /\ \E i \in 1..Len(trace) :
           /\ trace[i].kind = "SkipUnparsed"
           /\ IndexOf(call.buildOrder, trace[i].project) # 0
           /\ state.diagnostics[trace[i].project] = <<"ConfigFile">>

\* ------------------------------------------------------------------ a project outside the build order
\* The builder has the root project 2: project 3 is not in its build order.
InitOutside == InitWith(SolutionHosts, {<<2>>}, AllOptions, BOOLEAN)

NextOutside ==
    \/ \E project \in {0, 3} : Build(project)
    \/ BuildProject
    \/ BuildReturn
    \/ \E project \in {0, 3} : Clean(project)

SpecOutside == InitOutside /\ [][NextOutside]_vars

\* The step is a call build(p) or clean(p)
CallsBuild(p) ==
    /\ pc = "idle" /\ ops' = ops + 1
    /\ \/ pc' = "build" /\ call'.project = p
       \/ pc' = "idle" /\ last'.op = "build" /\ last'.project = p
CallsClean(p) ==
    /\ pc = "idle" /\ ops' = ops + 1
    /\ pc' = "idle" /\ last'.op = "clean" /\ last'.project = p

\* C15: build(project) and clean(project) with a project that is not in the
\* full build order return InvalidProject_OutputsSkipped, execute no action,
\* delete and write no file, seed no pending entry, leave the initial-build
\* flag and every cached status as they were, and install no watcher.
C15_InvalidProjectDoesNothing ==
    [][\A p \in Proj :
        ((CallsBuild(p) \/ CallsClean(p)) /\ IndexOf(state'.buildOrder, p) = 0)
        => /\ pc' = "idle"
           /\ last'.exit = "InvalidProject_OutputsSkipped"
           /\ trace' = <<>>
           /\ host'.deletes = 0 /\ host'.writes = 0 /\ host'.touches = 0
           /\ host'.js = host.js /\ host'.dts = host.dts
           /\ state'.projectPendingBuild = state.projectPendingBuild
           /\ state'.allProjectBuildPending = state.allProjectBuildPending
           /\ state'.projectStatus = state.projectStatus
           /\ state'.watchAllProjectsPending = state.watchAllProjectsPending
           /\ state'.allWatchedConfigFiles = state.allWatchedConfigFiles
           /\ state'.allWatchedWildcardDirectories = state.allWatchedWildcardDirectories
           /\ state'.allWatchedInputFiles = state.allWatchedInputFiles]_vars

\* build(3) returned InvalidProject_OutputsSkipped on a watching builder that
\* has built nothing yet
C15_Witness ==
    /\ pc = "idle"
    /\ last = Done("build", 3, "InvalidProject_OutputsSkipped")
    /\ state.buildOrder = <<1, 2>>
    /\ state.watch /\ state.allProjectBuildPending
    /\ \A p \in Proj : ~Pending(p)

\* ------------------------------------------------------------------ blocked and unbuildable projects
\* Project p has a direct reference whose status is Unbuildable
HasUnbuildableReference(p) ==
    /\ isParsedCommandLine(state.configFileCache[p])
    /\ \E k \in 1..Len(state.configFileCache[p].refs) :
           state.projectStatus[state.configFileCache[p].refs[k].path].type = "Unbuildable"

\* C16: a project P that the first build() of a builder took from the queue
\* and that has a direct reference whose status is Unbuildable has the status
\* UpstreamBlocked, and no action was executed for it, wherever that
\* reference stands in the list and whatever the other references are.
C16_UnbuildableReferenceBlocks ==
    \A p \in Proj :
        (/\ BuildReturned /\ call.after = "create"
         /\ \E i \in 1..Len(trace) : trace[i].project = p
         /\ Buildable(p)
         /\ HasUnbuildableReference(p))
        => /\ state.projectStatus[p].type = "UpstreamBlocked"
           /\ ~ActedOn(p)

\* The first build() of a builder built project 3 although project 1, which
\* it references after project 2, is Unbuildable
C16_BuiltOverUnbuildableReference ==
    /\ BuildReturned /\ call.after = "create"
    /\ state.projectStatus[1].type = "Unbuildable"
    /\ state.projectStatus[2].type = "UpstreamBlocked"
    /\ state.configFileCache[3].refs = <<Ref(2, FALSE, FALSE), Ref(1, FALSE, FALSE)>>
    /\ \E i \in Acted : /\ trace[i].project = 3
                        /\ trace[i].kind = "Build"
                        /\ trace[i].status = "UpstreamOutOfDate"

\* The configuration of project p lists an input file that does not exist
InputMissing(p) ==
    /\ isParsedCommandLine(state.configFileCache[p])
    /\ state.configFileCache[p].files
    /\ host.input[p] = NoFile

NoWatcher ==
    /\ state.allWatchedConfigFiles = {}
    /\ state.allWatchedWildcardDirectories = {}
    /\ state.allWatchedInputFiles = {}

\* C18: in watch mode, after a first build() in which some project ended with
\* errors, no watcher has been installed.
C18_NoWatcherAfterErrors ==
    (/\ BuildReturned /\ call.after = "create"
     /\ state.watch
     /\ ActedWithDiagnostics # {})
    => NoWatcher

\* C18 (amended): in watch mode every build() that returns normally has
\* installed the watchers, with or without errors in its projects: the
\* configuration file of every project of the build order is watched, and so
\* are the input files of every project whose configuration parsed and lists
\* files.  A builder that does not watch installs none.
C18_WatchersInstalledAtReturn ==
    /\ (BuildReturned /\ state.watch)
       => /\ ~state.watchAllProjectsPending
          /\ \A i \in 1..Len(state.buildOrder) :
                 LET p == state.buildOrder[i]
                 IN /\ p \in state.allWatchedConfigFiles
                    /\ (isParsedCommandLine(state.configFileCache[p])
                        /\ state.configFileCache[p].files)
                       => p \in state.allWatchedInputFiles
    /\ ~state.watch => NoWatcher

C18_Witness ==
    /\ BuildReturned /\ call.after = "create"
    /\ state.watch
    /\ last.exit = "DiagnosticsPresent_OutputsSkipped"
    /\ state.diagnostics[1] = <<"Semantic">>
    /\ state.allWatchedConfigFiles = {1, 2, 3}
    /\ 1 \in state.allWatchedInputFiles

\* ------------------------------------------------------------------ emit
\* The step of the loop of build() is a Build of p that found the declaration
\* file of p on disk with the text it emits
EmitsUnchangedDeclarations(p) ==
    /\ pc = "build" /\ pc' = "build"
    /\ ~state.options.dry
    /\ host.dts[p] # NoFile
    /\ BuildsUnchanged(p)

OutputCount(p) == Len(getAllProjectOutputs(state'.configFileCache[p]))

\* C19: a Build that finds the declaration file on disk equal to the text it
\* emits does not call writeFile for it (the file keeps its modification
\* time), calls writeFile for the other outputs only, and folds the
\* modification time of the file into newestDeclarationFileContentChangedTime.
C19_UnchangedDeclarationNotWritten ==
    [][\A p \in Proj :
        EmitsUnchangedDeclarations(p)
        => /\ host'.writes = host.writes + OutputCount(p) - 1
           /\ host'.dts[p] = host.dts[p]
           /\ state'.projectStatus[p].newestDeclarationFileContentChangedTime
                  = host.dts[p]]_vars

\* What the code does: such a Build calls writeFile for every emitted output,
\* the unchanged declaration file included, which gets the time of the write;
\* the modification time the file had before the write is folded into
\* newestDeclarationFileContentChangedTime.
C19_UnchangedDeclarationWrittenTimeKept ==
    [][\A p \in Proj :
        EmitsUnchangedDeclarations(p)
        => /\ host'.writes = host.writes + OutputCount(p)
           /\ host'.dts[p] = host'.now /\ host'.js[p] = host'.now
           /\ state'.projectStatus[p].type = "UpToDate"
           /\ state'.projectStatus[p].newestDeclarationFileContentChangedTime
                  = host.dts[p]]_vars

\* A Build has written again, at a later time, a declaration file whose text
\* did not change, and the status keeps the earlier time
C19_Witness ==
    /\ pc = "build"
    /\ \E i \in Acted :
           /\ i = Len(trace)
           /\ trace[i].kind = "Build"
           /\ "DeclarationOutputUnchanged" \in trace[i].result
           /\ host.writes >= 2
           /\ host.dts[trace[i].project] = host.now
           /\ state.projectStatus[trace[i].project].newestDeclarationFileContentChangedTime
                  < host.now
           /\ state.projectStatus[trace[i].project].newestDeclarationFileContentChangedTime
                  > minimumDate

\* ------------------------------------------------------------------ cancellation
\* The cancellation tokens a caller passes: none, one that is not cancelled,
\* one that is cancelled already
Tokens == {"undefined", "live", "cancelled"}

\* cancellationToken.throwIfCancellationRequested(): TRUE when it throws
throwIfCancellationRequested(cancellationToken) == cancellationToken = "cancelled"

\* setupInitialBuild that polls the token before anything else
setupInitialBuildPollsFirst(w, cancellationToken) ==
    IF ~w.s.allProjectBuildPending THEN [w |-> w, thrown |-> FALSE]
    ELSE IF throwIfCancellationRequested(cancellationToken)
    THEN [w |-> w, thrown |-> TRUE]
    ELSE [w |-> setupInitialBuild(w), thrown |-> FALSE]

\* setupInitialBuild(state, cancellationToken): [w, thrown].  The token is
\* polled as the last statement, after the flag, the cache and the queue.
setupInitialBuildWithToken(w, cancellationToken) ==
    IF ~w.s.allProjectBuildPending THEN [w |-> w, thrown |-> FALSE]
    ELSE [w |-> setupInitialBuild(w),
          thrown |-> throwIfCancellationRequested(cancellationToken)]

\* The first build(project, cancellationToken) of a builder.  When
\* setupInitialBuild throws, build() is left with the exception.
FirstBuild(project, cancellationToken) ==
    /\ pc = "idle" /\ ops < MaxOps
    /\ state.allProjectBuildPending
    /\ \E r \in {getBuildOrderFor(Wstart, project)} :
          IF ~r.valid
          THEN /\ Becomes(r.w)
               /\ pc' = "idle"
               /\ call' = NoCall
               /\ last' = Done("build", project, "InvalidProject_OutputsSkipped")
          ELSE \E u \in {setupInitialBuildWithToken(r.w, cancellationToken)} :
                   /\ Becomes(u.w)
                   /\ IF u.thrown
                      THEN /\ pc' = "idle"
                           /\ call' = NoCall
                           /\ last' = Done("build", project, "OperationCanceled")
                      ELSE /\ pc' = "build"
                           /\ call' = [NoCall EXCEPT !.project = project,
                                                     !.buildOrder = r.order,
                                                     !.after = last.op]
                           /\ last' = last
    /\ ops' = ops + 1

\* The first buildNextProject(cancellationToken) of a builder
FirstBuildNextProject(cancellationToken) ==
    /\ pc = "idle" /\ ops < MaxOps
    /\ state.allProjectBuildPending
    /\ \E u \in {setupInitialBuildWithToken(Wstart, cancellationToken)} :
          IF u.thrown
          THEN /\ Becomes(u.w)
               /\ last' = Done("buildNextProject", 0, "OperationCanceled")
          ELSE \E r \in {buildNextProject(u.w)} :
                   /\ Becomes(r.w)
                   /\ last' = Done("buildNextProject", r.project, r.exit)
    /\ call' = NoCall
    /\ ops' = ops + 1
    /\ UNCHANGED pc

InitCancel == InitWith(SolutionHosts, {<<3>>}, AllOptions, BOOLEAN)

NextCancel ==
    \/ \E project \in BuildArgs, cancellationToken \in Tokens :
           FirstBuild(project, cancellationToken)
    \/ \E cancellationToken \in Tokens : FirstBuildNextProject(cancellationToken)
    \/ Build(0)
    \/ BuildProject
    \/ BuildReturn
    \/ BuildNextProject

SpecCancel == InitCancel /\ [][NextCancel]_vars

\* The step is a first call left by the cancellation exception
Cancelled ==
    /\ pc = "idle" /\ pc' = "idle"
    /\ ops' = ops + 1
    /\ last'.exit = "OperationCanceled"

AllSeeded(s) == \A i \in 1..Len(s.buildOrder) : s.projectPendingBuild[s.buildOrder[i]] # NotPending

\* C20: a first build() or buildNextProject() called with a token that is
\* cancelled already raises the cancellation before the queue is seeded,
\* before the cache is enabled and before allProjectBuildPending is cleared.
C20_CancelledBeforeSetup ==
    [][Cancelled
       => /\ state'.allProjectBuildPending
          /\ ~state'.cache
          /\ \A p \in Proj : state'.projectPendingBuild[p] = NotPending]_vars

\* C20 (amended): such a call raises the cancellation at the end of
\* setupInitialBuild: allProjectBuildPending is cleared, the cache is enabled
\* and every project of the build order is queued; no project is examined, no
\* file is written and no watcher is installed.
C20_CancelledAfterSetup ==
    [][Cancelled
       => /\ state.allProjectBuildPending /\ ~state'.allProjectBuildPending
          /\ state'.cache
          /\ state'.buildOrder # NoBuildOrder /\ AllSeeded(state')
          /\ trace' = <<>>
          /\ host'.writes = 0 /\ host'.js = host.js /\ host'.dts = host.dts
          /\ state'.projectStatus = state.projectStatus
          /\ state'.watchAllProjectsPending = state.watchAllProjectsPending
          /\ state'.allWatchedConfigFiles = {}]_vars

C20_Witness ==
    /\ pc = "idle"
    /\ last = Done("build", 0, "OperationCanceled")
    /\ ~state.allProjectBuildPending
    /\ state.cache
    /\ state.buildOrder = <<1, 2, 3>>
    /\ \A p \in Proj : state.projectPendingBuild[p] = LevelNone

\* ------------------------------------------------------------------ the file-content cache
\* C21: the cache is enabled whenever build() executes a project action, and
\* disabled when build() returns, in every build() call of a builder.
C21_CacheEnabledDuringBuild ==
    [][/\ (pc = "build" /\ NewActions # {}) => state.cache
       /\ (pc = "build" /\ pc' = "idle") => ~state'.cache]_vars

\* A second build() of the builder has executed an action with the cache
\* disabled
C21_ActionWithoutCache ==
    /\ pc = "build"
    /\ call.after = "build"
    /\ Acted # {}
    /\ ~state.cache

\* ------------------------------------------------------------------ build() and buildNextProject()
\* The loop of build(): the factory and done() until no project is returned
RECURSIVE buildLoop(_, _)
buildLoop(w, buildOrder) ==
    Let(getNextInvalidatedProject(w, buildOrder), LAMBDA g :
        IF g.handle.kind = "none" THEN g.w
        ELSE buildLoop(done(g.w, g.handle, buildOrder), buildOrder))

\* One call of build() with no project argument
buildAll(w) ==
    Let(buildBegin(w, 0), LAMBDA r : buildEnd(buildLoop(r.w, r.order)))

\* buildNextProject() called until it returns undefined
RECURSIVE buildNextProjectUntilNone(_)
buildNextProjectUntilNone(w) ==
    Let(buildNextProject(w), LAMBDA r :
        IF r.project = 0 THEN r.w ELSE buildNextProjectUntilNone(r.w))

\* C22: from every state, buildNextProject() repeated until it returns none
\* does with the projects what one build() does, and leaves the same
\* statuses, diagnostics and queue; each result it returns is
\* DiagnosticsPresent_OutputsSkipped iff the project has stored diagnostics.
C22_StepsEqualBuild ==
    pc = "idle"
    => /\ \E a \in {buildAll(Wstart)}, b \in {buildNextProjectUntilNone(Wstart)} :
              /\ a.log = b.log
              /\ a.s.projectStatus = b.s.projectStatus
              /\ a.s.diagnostics = b.s.diagnostics
              /\ a.s.projectPendingBuild = b.s.projectPendingBuild
              /\ a.h.js = b.h.js /\ a.h.dts = b.h.dts
       /\ (last.op = "buildNextProject" /\ last.project # 0)
          => last.exit = IF state.diagnostics[last.project] # <<>>
                         THEN "DiagnosticsPresent_OutputsSkipped" ELSE "Success"

\* buildNextProject() was called until it returned none: it built one project
\* with errors and one without, and build() from here would do nothing more
C22_Witness ==
    /\ pc = "idle"
    /\ last = Done("buildNextProject", 0, "none")
    /\ \E i, j \in Acted : /\ state.diagnostics[trace[i].project] # <<>>
                           /\ state.diagnostics[trace[j].project] = <<>>
    /\ \A p \in Proj : ~Pending(p)

\* ------------------------------------------------------------------ upstream out of date
\* After the step some direct reference of p is not UpToDate
ReferenceNotUpToDate(p) ==
    /\ isParsedCommandLine(state'.configFileCache[p])
    /\ \E k \in 1..Len(state'.configFileCache[p].refs) :
           state'.projectStatus[state'.configFileCache[p].refs[k].path].type # "UpToDate"

\* C23: a project evaluated UpstreamOutOfDate is not built while the
\* reference it names is not up to date: no Build and no UpdateBundle action
\* is executed for it.
C23_UpstreamOutOfDateNotBuilt ==
    [][\A k \in NewEntries :
        (/\ trace'[k].status = "UpstreamOutOfDate"
         /\ ReferenceNotUpToDate(trace'[k].project))
        => trace'[k].kind \notin {"Build", "UpdateBundle"}]_vars

\* Project 3 was built and has its outputs while project 2, its only
\* reference, is UpstreamBlocked
C23_BuiltWhileUpstreamBlocked ==
    /\ BuildReturned
    /\ state.configFileCache[3].refs = <<Ref(2, FALSE, FALSE)>>
    /\ state.projectStatus[2].type = "UpstreamBlocked"
    /\ state.projectStatus[3].type = "UpToDate"
    /\ host.js[3] # NoFile
    /\ \E i \in Acted : /\ trace[i].project = 3
                        /\ trace[i].kind = "Build"
                        /\ trace[i].status = "UpstreamOutOfDate"

\* ------------------------------------------------------------------ downstream propagation
\* The step is an error-free Build of composite project p that changed its
\* declaration output
BuildsChanged(p) ==
    /\ isParsedCommandLine(state'.configFileCache[p])
    /\ state'.configFileCache[p].composite
    /\ \E k \in NewEntries :
           /\ trace'[k].project = p
           /\ trace'[k].kind = "Build"
           /\ trace'[k].result \cap AnyErrors = {}
           /\ "DeclarationOutputUnchanged" \notin trace'[k].result

\* b comes after a in the order the step goes through
LaterInStepOrder(b, a) ==
    /\ IndexOf(StepOrder, a) # 0
    /\ IndexOf(StepOrder, b) > IndexOf(StepOrder, a)

\* C24: after an error-free Build of composite P with changed declaration
\* output, every later project of the order that references P and was cached
\* UpToDate, UpToDateWithUpstreamTypes or OutOfDateWithPrepend is cached
\* OutOfDateWithUpstream and is in the queue, whether or not it was in the
\* queue before.
C24_ChangedDeclarationsPromoteDownstream ==
    [][\A p, b \in Proj :
        (/\ BuildsChanged(p)
         /\ Edge(b, p)
         /\ LaterInStepOrder(b, p)
         /\ state.projectStatus[b].type \in
                {"UpToDate", "UpToDateWithUpstreamTypes", "OutOfDateWithPrepend"})
        => /\ state'.projectStatus[b].type = "OutOfDateWithUpstream"
           /\ state'.projectPendingBuild[b] # NotPending]_vars

\* Project 1 was just rebuilt with changed declarations, and project 2, which
\* references it and was already queued, is still cached
\* UpToDateWithUpstreamTypes
C24_QueuedDownstreamNotPromoted ==
    /\ Len(trace) > 0
    /\ trace[Len(trace)].project = 1
    /\ trace[Len(trace)].kind = "Build"
    /\ trace[Len(trace)].result = {}
    /\ ~state.options.dry /\ ~state.options.force
    /\ host.dtsText[1] = host.declText[1] /\ host.dts[1] = host.now
    /\ Edge(2, 1)
    /\ Pending(2)
    /\ state.projectStatus[2].type = "UpToDateWithUpstreamTypes"

\* The log has, before position j, an error-free Build of composite project p
\* with changed declaration output
RebuiltChangedBefore(p, j) ==
    /\ isParsedCommandLine(state.configFileCache[p])
    /\ state.configFileCache[p].composite
    /\ \E i \in 1..(j - 1) :
           /\ trace[i].project = p
           /\ trace[i].kind = "Build"
           /\ trace[i].result \cap AnyErrors = {}
           /\ "DeclarationOutputUnchanged" \notin trace[i].result

\* The log has, before position j, an error-free Build of project p
RebuiltBefore(p, j) ==
    \E i \in 1..(j - 1) :
        /\ trace[i].project = p
        /\ trace[i].kind = "Build"
        /\ trace[i].result \cap AnyErrors = {}

\* C25: in a pass in which a composite project that B references was rebuilt
\* with changed declaration output, or a project that B prepends was rebuilt,
\* the action executed for B is not UpdateOutputFileStamps.
C25_NoStampsAfterUpstreamChange ==
    \A j \in Acted :
        (\E p \in Proj :
            \/ Edge(trace[j].project, p) /\ RebuiltChangedBefore(p, j)
            \/ Prepends(trace[j].project, p) /\ RebuiltBefore(p, j))
        => trace[j].kind # "UpdateOutputFileStamps"

\* build() rebuilt project 1 with changed declarations and then only updated
\* the time stamps of the outputs of project 2, which references it
C25_StampedAfterChangedDeclarations ==
    /\ BuildReturned
    /\ ~state.options.dry
    /\ Edge(2, 1)
    /\ \E i, j \in Acted :
           /\ i < j
           /\ trace[i].project = 1 /\ trace[i].kind = "Build" /\ trace[i].result = {}
           /\ trace[j].project = 2 /\ trace[j].kind = "UpdateOutputFileStamps"
    /\ state.projectStatus[2].type = "UpToDate"
    /\ host.dtsText[1] = host.declText[1]

\* ---------------------------------------------------------------------------
\* C26
\* The state the next-project factory hands to the action of one turn of the
\* loop of build(): the skips of earlier projects are the factory's, what
\* follows is the action's.
HandedToAction == getNextInvalidatedProject(W, call.buildOrder).w.s

SameForOthers(s1, s2, p) ==
    \A q \in Proj \ {p} :
        /\ s1.projectStatus[q] = s2.projectStatus[q]
        /\ s1.diagnostics[q] = s2.diagnostics[q]
        /\ s1.projectPendingBuild[q] = s2.projectPendingBuild[q]

\* C26: a Build or UpdateBundle action that ends with an error flag changes
\* no other project's cached status, stored diagnostics or pending-build
\* entry: downstream propagation is skipped.
C26_FailedActionTouchesNoOther ==
    [][(pc = "build" /\ pc' = "build") =>
         \A k \in NewActions :
             (/\ trace'[k].kind \in {"Build", "UpdateBundle"}
              /\ trace'[k].result \cap AnyErrors # {})
             => \E s \in {HandedToAction} : SameForOthers(s, state', trace'[k].project)]_vars

\* A failed Build of composite project 1 is the last action, and project 2,
\* which references it, has no pending entry and a cached up-to-date status:
\* propagation would have queued it.
C26_Witness ==
    /\ pc = "build" /\ ~state.options.dry
    /\ Len(trace) > 0
    /\ trace[Len(trace)].kind = "Build" /\ trace[Len(trace)].project = 1
    /\ trace[Len(trace)].result \cap AnyErrors # {}
    /\ Edge(2, 1) /\ \E i \in 1..Len(call.buildOrder) : call.buildOrder[i] = 2
    /\ ~Pending(2) /\ state.projectStatus[2].type = "UpToDate"

\* ---------------------------------------------------------------------------
\* C27
\* A watched solution in which the root project 3 references two independent
\* libraries, 1 and 2, in either order; library 1 starts with or without a
\* type error, and the inputs of both libraries can be edited.
BlockedConfigs ==
    {<<Lib, Lib, c3>> :
        c3 \in {App(<<Ref(1, FALSE, FALSE), Ref(2, FALSE, FALSE)>>),
                App(<<Ref(2, FALSE, FALSE), Ref(1, FALSE, FALSE)>>)}}

BlockedHosts ==
    {InitialHost(config, [p \in Proj |-> 1], err) :
        config \in BlockedConfigs, err \in SolutionErrors}

InitBlocked ==
    InitWith(BlockedHosts, {<<3>>}, {Options(FALSE, force) : force \in BOOLEAN}, {TRUE})

NextBlocked ==
    \/ Build(0)
    \/ BuildProject
    \/ BuildReturn
    \/ \E text \in {0, 1}, err \in EditErrors : EditInput(1, text, err)
    \/ \E text \in {0, 1} : EditInput(2, text, "")
    \/ InputFileWatcher(1)
    \/ InputFileWatcher(2)
    \/ TimerToBuildInvalidatedProject

SpecBlocked == InitBlocked /\ [][NextBlocked]_vars

BlockedOn(b, a) ==
    /\ state.projectStatus[b].type = "UpstreamBlocked"
    /\ state.projectStatus[b].upstreamProjectName = a

\* This step holds a Build of project a that ends without an error flag.
RebuildsWithoutErrors(a) ==
    /\ ~state.options.dry
    /\ \E k \in NewActions :
           /\ trace'[k].kind = "Build" /\ trace'[k].project = a
           /\ trace'[k].result \cap AnyErrors = {}

InOrder(order, p) == \E i \in 1..Len(order) : order[i] = p

\* C27: when project b is cached UpstreamBlocked on composite project a and
\* a is rebuilt without errors, the cached status and the diagnostics of b
\* are cleared and b gets a pending-build entry; and build() does not return
\* while a project of its build order is still pending, so b is evaluated
\* again before the call ends.
C27_UnblockedDownstreamRequeued ==
    [][/\ \A a, b \in Proj :
            (/\ BlockedOn(b, a) /\ host.config[a].kind = "parsed" /\ host.config[a].composite
             /\ Edge(b, a) /\ RebuildsWithoutErrors(a))
            => /\ state'.projectStatus[b] = NoStatus
               /\ state'.diagnostics[b] = <<>>
               /\ state'.projectPendingBuild[b] # NotPending
       /\ (pc = "build" /\ pc' = "idle" /\ BuildReturned')
            => \A b \in Proj : InOrder(call.buildOrder, b) => state'.projectPendingBuild[b] = NotPending]_vars

\* build() has returned Success after rebuilding library 1 without errors,
\* and project 3, which references it, is still cached UpstreamBlocked on
\* project 1: it was skipped and has no output.
C27_StillBlockedAfterRebuild ==
    /\ BuildReturned /\ last.op = "build" /\ last.exit = "Success"
    /\ \E i \in Acted : /\ trace[i].kind = "Build" /\ trace[i].project = 1
                        /\ trace[i].result \cap AnyErrors = {}
    /\ \E j \in 1..Len(trace) : /\ trace[j].kind = "SkipUpstreamBlocked"
                                /\ trace[j].project = 3
    /\ state.projectStatus[1].type = "UpToDate"
    /\ state.projectStatus[3].type = "UpstreamBlocked"
    /\ state.projectStatus[3].upstreamProjectName = 1
    /\ host.js[3] = NoFile
    /\ \A p \in Proj : ~Pending(p)

\* ---------------------------------------------------------------------------
\* C28
\* getUpToDateStatusOfProject of the solution builder: [w, status]
getUpToDateStatusOfProject(w, project) ==
    Let(parseConfigFile(w, project), LAMBDA w1 :
        getUpToDateStatus(w1, w1.s.configFileCache[project], project))

GetUpToDateStatusOfProject(project) ==
    /\ pc = "idle" /\ ops < MaxOps
    /\ \E r \in {getUpToDateStatusOfProject(Wstart, project)} :
          /\ Becomes(r.w)
          /\ last' = Done("getUpToDateStatusOfProject", project, r.status.type)
    /\ call' = NoCall
    /\ ops' = ops + 1
    /\ UNCHANGED pc

\* Every reference graph over the projects, cycles and self-references
\* included, with the references flagged circular; any configuration may be
\* unparseable.
CycleConfigs ==
    {ConfigDiagnostic} \cup
    {ParsedConfig(refs, TRUE, TRUE, TRUE, FALSE, FALSE) :
        refs \in RefLists(Proj, {FALSE}, {TRUE})}

InitCycle ==
    InitWith({InitialHost(config, [p \in Proj |-> 1], [p \in Proj |-> ""]) :
                 config \in [Proj -> CycleConfigs]},
             OrderRoots, {Options(FALSE, FALSE)}, {FALSE})

NextCycle ==
    \/ Build(0)
    \/ BuildProject
    \/ BuildReturn
    \/ \E project \in Proj : GetUpToDateStatusOfProject(project)
    \/ InvalidateProject(1, LevelNone)

SpecCycle == InitCycle /\ [][NextCycle]_vars

NotComputing(status) == status.type # "ComputingUpstream"

\* C28: ComputingUpstream never escapes the evaluator. No entry of the
\* status map is ComputingUpstream between the builder's operations, the
\* status getUpToDateStatusOfProject returned is not ComputingUpstream, and
\* an evaluation of any project from this state terminates, returns a status
\* other than ComputingUpstream and leaves none in the status map; for every
\* reference graph, cyclic ones included.
C28_ComputingUpstreamNeverEscapes ==
    /\ \A p \in Proj : NotComputing(state.projectStatus[p])
    /\ last.op = "getUpToDateStatusOfProject" => last.exit # "ComputingUpstream"
    /\ \A p \in Proj : \E r \in {getUpToDateStatusOfProject(W, p)} :
           /\ NotComputing(r.status)
           /\ \A q \in Proj : NotComputing(r.w.s.projectStatus[q])

\* getUpToDateStatusOfProject has evaluated project 1, which lies on a cycle
\* of references with project 2, and both have a status.
C28_Witness ==
    /\ last.op = "getUpToDateStatusOfProject" /\ last.project = 1
    /\ Edge(1, 2) /\ Edge(2, 1)
    /\ state.projectStatus[1] # NoStatus /\ state.projectStatus[2] # NoStatus

\* ---------------------------------------------------------------------------
\* C29
\* The handles the factory returns have an action method (build,
\* updateBundle, updateOutputFileStatmps) next to done(). A holder of a
\* handle calls the action method at most MaxExplicitCalls times before
\* done().
MaxExplicitCalls == 1

\* build() of a Build handle (createBuildInvalidedProject)
buildOfHandle(w, handle, buildOrder) ==
    Let(w.s.configFileCache[handle.project], LAMBDA config :
    Let(buildSingleProject(w, handle.project, config), LAMBDA b :
    Let(queueReferencingProjects(b.w, handle.project, handle.index, config, buildOrder,
                                 b.result),
        LAMBDA w1 :
            Logged(w1, handle.project, handle.index, "Build", handle.status, b.result))))

\* update() of an UpdateBundle handle (createUpdateBundleProject):
\* [w, converted]; converted when it returns a Build handle
updateOfHandle(w, handle, buildOrder) ==
    Let(w.s.configFileCache[handle.project], LAMBDA config :
    Let(updateBundle(w, handle.project, config), LAMBDA u :
        IF u.unreadable THEN [w |-> u.w, converted |-> TRUE]
        ELSE
        Let(queueReferencingProjects(u.w, handle.project, handle.index, config, buildOrder,
                                     u.result),
            LAMBDA w1 :
                [w |-> Logged(w1, handle.project, handle.index, "UpdateBundle",
                              handle.status, u.result),
                 converted |-> FALSE])))

\* updateOutputFileStatmps() of an UpdateOutputFileStamps handle
updateOutputFileStatmpsOfHandle(w, handle) ==
    Logged(updateOutputTimestamps(w, w.s.configFileCache[handle.project], handle.project),
           handle.project, handle.index, "UpdateOutputFileStamps", handle.status, {})

\* done() that runs the action whether or not it is pending
doneOfHandleAlways(w, handle, buildOrder, pending) ==
    [w |-> done(w, handle, buildOrder), ran |-> 1]

\* done() of a handle whose buildPending, updatePending or
\* updateOutputFileStampsPending is pending: [w, ran]
doneOfHandle(w, handle, buildOrder, pending) ==
    IF pending THEN [w |-> done(w, handle, buildOrder), ran |-> 1]
    ELSE [w |-> [w EXCEPT !.s.projectPendingBuild[handle.project] = NotPending],
          ran |-> 0]

\* The holder takes the next handle as buildNextProject does.
TakeHandle ==
    /\ pc = "idle"
    /\ \E w1 \in {getBuildOrder(setupInitialBuild(Wstart))} :
       \E g \in {getNextInvalidatedProject(w1, w1.s.buildOrder)} :
          /\ g.handle.kind # "none"
          /\ Becomes(g.w)
          /\ call' = [handle |-> g.handle, pending |-> TRUE, explicit |-> 0, runs |-> 0,
                      conversions |-> 0, returned |-> FALSE, returnedDone |-> 0]
                     @@ [NoCall EXCEPT !.project = g.handle.project,
                                       !.buildOrder = w1.s.buildOrder]
    /\ pc' = "handle"
    /\ last' = Done("getNextInvalidatedProject", 0, "none")
    /\ UNCHANGED ops

\* The holder calls the action method of the handle.
ExplicitAction ==
    /\ pc = "handle" /\ call.explicit < MaxExplicitCalls
    /\ \/ /\ call.handle.kind = "Build"
          /\ Becomes(buildOfHandle(W, call.handle, call.buildOrder))
          /\ call' = [call EXCEPT !.pending = FALSE, !.explicit = @ + 1, !.runs = @ + 1]
       \/ /\ call.handle.kind = "UpdateOutputFileStamps"
          /\ Becomes(updateOutputFileStatmpsOfHandle(W, call.handle))
          /\ call' = [call EXCEPT !.pending = FALSE, !.explicit = @ + 1, !.runs = @ + 1]
       \/ /\ call.handle.kind = "UpdateBundle"
          /\ \E r \in {updateOfHandle(W, call.handle, call.buildOrder)} :
                /\ Becomes(r.w)
                /\ call' = [call EXCEPT
                               !.pending = IF r.converted THEN @ ELSE FALSE,
                               !.explicit = @ + 1, !.runs = @ + 1,
                               !.conversions = IF r.converted THEN @ + 1 ELSE @,
                               !.returned = r.converted]
    /\ UNCHANGED <<pc, last, ops>>

\* The holder calls done() of the Build handle that updateBundle() returned.
ReturnedHandleDone ==
    /\ pc = "handle" /\ call.returned
    /\ Becomes(doneBuild(W, call.handle, call.buildOrder))
    /\ call' = [call EXCEPT !.returned = FALSE, !.returnedDone = @ + 1]
    /\ UNCHANGED <<pc, last, ops>>

\* The holder calls done() of the handle.
HandleDone ==
    /\ pc = "handle"
    /\ \E r \in {doneOfHandle(W, call.handle, call.buildOrder, call.pending)} :
          /\ Becomes(r.w)
          /\ call' = [call EXCEPT !.runs = @ + r.ran]
    /\ pc' = "idle"
    /\ last' = Done("done", call.handle.project, "none")
    /\ UNCHANGED ops

NextHandle ==
    \/ TakeHandle
    \/ ExplicitAction
    \/ ReturnedHandleDone
    \/ HandleDone
    \/ \E text \in {0, 1} : EditInput(1, text, "")

SpecHandle == InitDisk /\ [][NextHandle]_vars

DoneReturned == pc = "idle" /\ last.op = "done"

\* C29 as stated: after done() returns, the pending-build entry of the
\* project is absent and the action of the handle ran exactly once, counting
\* the explicit call and done().
C29_ActionRunsExactlyOnce ==
    DoneReturned =>
        /\ ~Pending(last.project)
        /\ call.runs = 1

\* done() found the action of the handle pending: no explicit call completed
\* it (every explicit updateBundle() found the build info unreadable).
PendingAtDone == IF call.conversions = call.explicit THEN 1 ELSE 0

\* C29, amended: after done() returns, the pending-build entry of the project
\* is absent, and done() ran the action of the handle only if no explicit
\* call had completed it. An explicit updateBundle() that finds the build
\* info unreadable returns a Build handle and leaves the update pending, so
\* done() runs the update again: after one explicit call the action ran
\* once, or twice in that case. The project was acted on once, plus once if
\* the holder called done() of the returned Build handle.
C29_ActionRunsOnceUnlessConverted ==
    DoneReturned =>
        /\ ~Pending(last.project)
        /\ call.runs = call.explicit + PendingAtDone
        /\ call.explicit = 1 => call.runs = 1 + call.conversions
        /\ call.handle.kind # "UpdateBundle" => call.conversions = 0
        /\ Cardinality(Acted) =
               (call.explicit - call.conversions) + call.returnedDone + PendingAtDone

\* done() has returned for a handle of each kind after an explicit call of
\* its action: this one for an UpdateBundle handle whose explicit
\* updateBundle() found the build info unreadable.
C29_Witness ==
    /\ DoneReturned /\ ~state.options.dry
    /\ call.handle.kind = "UpdateBundle"
    /\ call.explicit = 1 /\ call.conversions = 1 /\ call.runs = 2

\* ---------------------------------------------------------------------------
\* C30
\* A built solution in which project 2 prepends library 1 and the root
\* project 3 references project 2 only; the build info of project 2 may be
\* lost, and its sources may hold a type error.
BundleConfigs ==
    {<<Lib, App(<<Ref(1, TRUE, FALSE)>>), App(<<Ref(2, FALSE, FALSE)>>)>>}

BundleHosts ==
    {[BuiltHost(config, <<1, 1, 1>>, err, Proj) EXCEPT
         !.buildInfo[2] = IF lost THEN "none" ELSE @] :
        config \in BundleConfigs, err \in {<<"", "", "">>, <<"", "Semantic", "">>},
        lost \in BOOLEAN}

InitBundle ==
    InitWith(BundleHosts, {<<3>>}, {Options(FALSE, force) : force \in BOOLEAN}, BOOLEAN)

SpecBundle == InitBundle /\ [][NextDisk]_vars

\* The state after build() of a Build handle and the removal of the
\* project's pending-build entry
BuiltAndPropagatedOnce(w, handle, buildOrder) ==
    Let(w.s.configFileCache[handle.project], LAMBDA config :
    Let(buildSingleProject(w, handle.project, config), LAMBDA b :
    Let(queueReferencingProjects(b.w, handle.project, handle.index, config, buildOrder,
                                 b.result),
        LAMBDA w1 :
            [s |-> [w1.s EXCEPT !.projectPendingBuild[handle.project] = NotPending],
             h |-> w1.h, result |-> b.result])))

\* C30: when the UpdateBundle action of done() finds the build info
\* unreadable, the step holds exactly one action, a Build of the same
\* project; the builder and the disk are as after one Build followed by one
\* downstream propagation with the result of that Build; the project has no
\* pending-build entry; and the project has stored diagnostics only if the
\* Build ended with errors.
C30_UnreadableBuildInfoBuildsOnce ==
    [][(pc = "build" /\ pc' = "build") =>
         \E g \in {getNextInvalidatedProject(W, call.buildOrder)} :
             (/\ g.handle.kind = "UpdateBundle" /\ ~state.options.dry
              /\ g.w.h.buildInfo[g.handle.project] = "none")
             => /\ \E k \in NewActions :
                       /\ NewActions = {k}
                       /\ trace'[k].kind = "Build"
                       /\ trace'[k].project = g.handle.project
                       /\ \E e \in {BuiltAndPropagatedOnce(g.w, g.handle, call.buildOrder)} :
                              /\ state' = e.s
                              /\ host' = e.h
                              /\ trace'[k].result = e.result
                              /\ (e.result \cap AnyErrors = {})
                                     <=> state'.diagnostics[g.handle.project] = <<>>
                /\ state'.projectPendingBuild[g.handle.project] = NotPending]_vars

\* The bundle of project 2 could not be updated because its build info was
\* unreadable, project 2 was built instead without errors, and the Build's
\* result reached project 3, which had no pending entry before.
C30_Witness ==
    /\ pc = "build" /\ ~state.options.force /\ ~state.options.dry
    /\ host.config[2].incremental /\ ~host.config[2].errors
    /\ Len(trace) > 0
    /\ trace[Len(trace)].kind = "Build" /\ trace[Len(trace)].project = 2
    /\ trace[Len(trace)].status = "OutOfDateWithPrepend"
    /\ trace[Len(trace)].result = {"DeclarationOutputUnchanged"}
    /\ \A i \in Acted : trace[i].project = 2 => i = Len(trace)
    /\ ~Pending(2) /\ state.diagnostics[2] = <<>>
    /\ host.buildInfo[2] = "current"
    /\ Edge(3, 2) /\ ~Edge(3, 1)
    /\ Pending(3) /\ state.projectStatus[3].type = "UpToDateWithUpstreamTypes"

\* ---------------------------------------------------------------------------
\* C31
\* The stages at which the program of a project reports diagnostics
StageErrors == {"", "Syntactic", "Semantic", "Declaration file", "Emit"}

\* A solution 1 <- 2 <- 3, fresh or built, in which library 1 has or has not
\* errors in its configuration file, an input file or none, and diagnostics
\* of any one stage.
StageHosts ==
    {BuiltHost(<<c1, App(<<Ref(1, FALSE, FALSE)>>), App(<<Ref(2, FALSE, FALSE)>>)>>,
               inputs, <<e, "", "">>, built) :
        c1 \in {Lib, [Lib EXCEPT !.errors = TRUE]}, inputs \in {<<1, 1, 1>>, <<NoFile, 1, 1>>},
        e \in StageErrors, built \in {{}, Proj}}

InitStages ==
    InitWith(StageHosts, {<<3>>}, {Options(FALSE, force) : force \in BOOLEAN}, {FALSE})

NextStages ==
    \/ Build(0)
    \/ BuildProject
    \/ BuildReturn
    \/ InvalidateProject(1, LevelNone)
    \/ \E text \in {0, 1}, err \in StageErrors : EditInput(1, text, err)

SpecStages == InitStages /\ [][NextStages]_vars

\* The first stage of project p at which there are diagnostics, "" if none
\* before emit
FirstStage(p) ==
    IF \/ host.config[p].errors \/ host.input[p] = NoFile
       \/ host.sourceError[p] = "Syntactic"
    THEN "Syntactic"
    ELSE IF host.sourceError[p] \in {"Semantic", "Declaration file"}
    THEN host.sourceError[p]
    ELSE ""

\* The kinds of diagnostics a stage gives
StageKinds(stage) ==
    IF stage = "Syntactic" THEN {"Config", "NoInputs", "File not found", "Syntactic"}
    ELSE {stage}

StageFlag(stage) ==
    IF stage = "Syntactic" THEN {"SyntaxErrors"}
    ELSE IF stage = "Semantic" THEN {"TypeErrors"}
    ELSE {"DeclarationEmitErrors"}

OutputsUntouched(p) ==
    /\ host'.js[p] = host.js[p] /\ host'.dts[p] = host.dts[p]
    /\ host'.dtsText[p] = host.dtsText[p] /\ host'.buildInfo[p] = host.buildInfo[p]
    /\ host'.writes = host.writes /\ host'.touches = host.touches

\* C31: a Build of a project that has diagnostics at the configuration,
\* options, global or syntactic stage, else at the semantic stage, else at
\* the declaration-emit stage, ends with the flag of that first stage alone
\* (SyntaxErrors, TypeErrors, DeclarationEmitErrors), stores the diagnostics
\* of that stage only, leaves the project Unbuildable, and writes and touches
\* no output file.
C31_BuildStopsAtFirstStage ==
    [][(pc = "build" /\ pc' = "build") =>
         \A k \in NewActions :
             (trace'[k].kind = "Build" /\ FirstStage(trace'[k].project) # "")
             => \E p \in {trace'[k].project} :
                    /\ trace'[k].result = StageFlag(FirstStage(p))
                    /\ state'.diagnostics[p] # <<>>
                    /\ \A i \in 1..Len(state'.diagnostics[p]) :
                           state'.diagnostics[p][i] \in StageKinds(FirstStage(p))
                    /\ state'.projectStatus[p].type = "Unbuildable"
                    /\ OutputsUntouched(p)]_vars

\* A Build of library 1, whose configuration file has errors and whose
\* sources have type errors, has stopped at the first stage; the outputs of
\* an earlier build are on disk.
C31_Witness ==
    /\ pc = "build" /\ Len(trace) > 0
    /\ trace[Len(trace)].kind = "Build" /\ trace[Len(trace)].project = 1
    /\ trace[Len(trace)].result = {"SyntaxErrors"}
    /\ host.config[1].errors /\ host.sourceError[1] = "Semantic"
    /\ host.input[1] # NoFile /\ host.js[1] # NoFile
    /\ state.diagnostics[1] = <<"Config">>

\* ---------------------------------------------------------------------------
\* C32
\* An expected output of project p is not on disk.
OutputIsMissing(p) ==
    host.js[p] = NoFile \/ (host.config[p].composite /\ host.dts[p] = NoFile)

\* The status type the evaluation r of project p met for its reference q: p
\* itself is being computed, a configuration that does not parse is
\* Unbuildable, and any other status is the one the evaluation cached.
MetStatusType(r, p, q) ==
    IF q = p THEN "ComputingUpstream"
    ELSE IF ~isParsedCommandLine(r.w.s.configFileCache[q]) THEN "Unbuildable"
    ELSE r.w.s.projectStatus[q].type

\* The status of a project with a missing output, from the statuses of its
\* references in their order
RECURSIVE StatusOverMissingOutput(_, _, _, _)
StatusOverMissingOutput(r, p, refs, i) ==
    IF i > Len(refs) THEN SimpleStatus("OutputMissing")
    ELSE IF MetStatusType(r, p, refs[i].path) \in {"UpToDate", "ComputingUpstream"}
    THEN StatusOverMissingOutput(r, p, refs, i + 1)
    ELSE IF MetStatusType(r, p, refs[i].path) = "Unbuildable"
    THEN Status("UpstreamBlocked", Undefined, Undefined, refs[i].path)
    ELSE Status("UpstreamOutOfDate", Undefined, Undefined, refs[i].path)

\* C32: the evaluation of a project with input files and a missing output
\* returns UpstreamBlocked naming the first reference it meets that is
\* Unbuildable, UpstreamOutOfDate naming the first it meets that is not up
\* to date, and OutputMissing when every reference is up to date or an edge
\* of a cycle; nothing but the status types of the references decides.
C32_MissingOutputYieldsToUpstream ==
    \A p \in Proj :
        (/\ state.projectStatus[p] = NoStatus
         /\ isParsedCommandLine(host.config[p]) /\ host.config[p].files
         /\ host.input[p] # NoFile /\ OutputIsMissing(p))
        => \E r \in {getUpToDateStatusOfProject(W, p)} :
               r.status = StatusOverMissingOutput(r, p, host.config[p].refs, 1)

\* getUpToDateStatusOfProject has returned OutputMissing for project 3, which
\* references the built, up-to-date project 1.
C32_Witness ==
    /\ last.op = "getUpToDateStatusOfProject" /\ last.project = 3
    /\ last.exit = "OutputMissing" /\ OutputIsMissing(3)
    /\ Edge(3, 1) /\ state.projectStatus[1].type = "UpToDate" /\ host.js[1] # NoFile

\* ---------------------------------------------------------------------------
\* C33
\* A built solution 1 <- 2 <- 3 whose outputs were written at time 1; the
\* configuration file of library 1 is missing, as old as the outputs or
\* newer, and it extends no, one or two configuration files; the
\* configuration file of project 2 is as old as the outputs or newer.
ConfigHosts ==
    {[BuiltHost(<<Lib, App(<<Ref(1, FALSE, FALSE)>>), App(<<Ref(2, FALSE, FALSE)>>)>>,
                <<1, 1, 1>>, <<"", "", "">>, Proj) EXCEPT
         !.configTime = <<t1, t2, 1>>, !.extendedConfigTimes[1] = extended] :
        t1 \in {NoFile, 1, 2}, t2 \in {1, 2},
        extended \in {<<>>, <<1>>, <<2>>, <<1, 2>>, <<2, 2>>}}

InitConfig == InitWith(ConfigHosts, {<<3>>}, {Options(FALSE, FALSE)}, {FALSE})

NextConfig ==
    \/ Build(0)
    \/ BuildProject
    \/ BuildReturn
    \/ \E project \in Proj : GetUpToDateStatusOfProject(project)
    \/ InvalidateProject(1, LevelNone)
    \/ \E text \in {0, 1} : EditInput(1, text, "")

SpecConfig == InitConfig /\ [][NextConfig]_vars

\* The modification times of the configuration file of project p (index 0)
\* and of the configuration files it extends (index 1, 2, ...)
ConfigFileTime(p, i) ==
    ModifiedTimeOr(IF i = 0 THEN host.configTime[p] ELSE host.extendedConfigTimes[p][i])

ConfigFiles(p) == 0..Len(host.extendedConfigTimes[p])

\* Project p has no references, and its input and outputs are on disk with
\* no output older than the input.
NoEarlierReason(p) ==
    /\ isParsedCommandLine(host.config[p]) /\ host.config[p].files
    /\ host.config[p].refs = <<>>
    /\ host.input[p] # NoFile /\ host.js[p] # NoFile /\ host.dts[p] # NoFile
    /\ host.input[p] <= OldestOutput(p)

UpToDateTypes == {"UpToDate", "UpToDateWithUpstreamTypes"}

\* C33 as stated: an up-to-date status is returned only when every
\* configuration file is strictly older than the oldest output; a project
\* with no earlier reason to rebuild and a configuration file as new as or
\* newer than the oldest output is OutOfDateWithSelf.
C33_ConfigStrictlyOlder ==
    \A p \in Proj :
        state.projectStatus[p] = NoStatus =>
            \E r \in {getUpToDateStatusOfProject(W, p)} :
                /\ r.status.type \in UpToDateTypes
                       => \A i \in ConfigFiles(p) : ConfigFileTime(p, i) < OldestOutput(p)
                /\ (/\ NoEarlierReason(p)
                    /\ \E i \in ConfigFiles(p) : ConfigFileTime(p, i) >= OldestOutput(p))
                       => r.status.type = "OutOfDateWithSelf"

\* C33, amended: an up-to-date status is returned only when no configuration
\* file, the project's own or an extended one, is newer than the oldest
\* output; an OutOfDateWithSelf that names a configuration file names the
\* first one that is newer than the oldest output; and a project with no
\* earlier reason to rebuild is OutOfDateWithSelf naming such a file exactly
\* when one is newer: a file as old as the oldest output does not make the
\* project out of date.
C33_ConfigNotNewer ==
    \A p \in Proj :
        state.projectStatus[p] = NoStatus =>
            \E r \in {getUpToDateStatusOfProject(W, p)} :
                /\ r.status.type \in UpToDateTypes
                       => \A i \in ConfigFiles(p) : ConfigFileTime(p, i) <= OldestOutput(p)
                /\ (r.status.type = "OutOfDateWithSelf"
                    /\ r.status.newerInputFileName.file # "input")
                       => \E i \in ConfigFiles(p) :
                              /\ r.status.newerInputFileName.index = i
                              /\ r.status.newerInputFileName.file
                                     = IF i = 0 THEN "config" ELSE "extended"
                              /\ ConfigFileTime(p, i) > OldestOutput(p)
                              /\ \A j \in 0..(i - 1) : ConfigFileTime(p, j) <= OldestOutput(p)
                /\ NoEarlierReason(p)
                       => (r.status.type = "OutOfDateWithSelf"
                           <=> \E i \in ConfigFiles(p) : ConfigFileTime(p, i) > OldestOutput(p))

\* getUpToDateStatusOfProject has returned UpToDate for library 1, whose
\* configuration file and extended configuration file are as old as its
\* oldest output.
C33_Witness ==
    /\ last.op = "getUpToDateStatusOfProject" /\ last.project = 1
    /\ last.exit = "UpToDate" /\ NoEarlierReason(1)
    /\ host.configTime[1] = OldestOutput(1)
    /\ Len(host.extendedConfigTimes[1]) > 0
    /\ host.extendedConfigTimes[1][1] = OldestOutput(1)

\* ---------------------------------------------------------------------------
\* C34
\* A built solution 1 <- 2 <- 3 in which the build info of library 1 was
\* written by another version of the compiler; the sources of library 1 have
\* a type error or none.
VersionHosts ==
    {[BuiltHost(<<Lib, App(<<Ref(1, FALSE, FALSE)>>), App(<<Ref(2, FALSE, FALSE)>>)>>,
                <<1, 1, 1>>, err, Proj) EXCEPT !.buildInfo[1] = "old"] :
        err \in SolutionErrors}

InitVersion == InitWith(VersionHosts, {<<3>>}, AllOptions, {FALSE})

NextVersion ==
    \/ Build(0)
    \/ BuildProject
    \/ BuildReturn
    \/ GetUpToDateStatusOfProject(1)
    \/ InvalidateProject(1, LevelNone)
    \/ \E text \in {0, 1}, err \in EditErrors : EditInput(1, text, err)

SpecVersion == InitVersion /\ [][NextVersion]_vars

\* The build info of project p on disk records another compiler version: no
\* Build of p has completed without errors since.
OldBuildInfo(p) ==
    /\ isParsedCommandLine(host.config[p]) /\ host.config[p].incremental
    /\ host.buildInfo[p] = "old"

\* C34: while the build info of a project records another compiler version,
\* the evaluator does not return UpToDate or UpToDateWithUpstreamTypes for
\* it and no such status is cached for it, also after its status was cleared
\* by invalidation or replaced by a failed Build.
C34_OldVersionNeverUpToDate ==
    \A p \in Proj :
        OldBuildInfo(p) =>
            /\ state.projectStatus[p].type \notin UpToDateTypes
            /\ (last.op = "getUpToDateStatusOfProject" /\ last.project = p)
                   => last.exit \notin UpToDateTypes

\* build() has returned Success after it skipped library 1 as up to date,
\* although the build info of library 1 still records another version.
C34_OldVersionSkippedAsUpToDate ==
    /\ BuildReturned /\ last.exit = "Success" /\ ~state.options.dry
    /\ OldBuildInfo(1) /\ 1 \in state.buildInfoChecked
    /\ \E i \in 1..Len(trace) : trace[i].project = 1 /\ trace[i].kind = "SkipUpToDate"
    /\ state.projectStatus[1].type = "UpToDate"

\* ---------------------------------------------------------------------------
\* C35
\* C35: invalidateProject(p, level), called in this state, leaves the
\* configuration cache and the memoized build order as they are at the
\* levels None and Partial; at the level Full it evicts the cache entry of p
\* alone and clears the build order; at every level it clears the cached
\* status and the stored diagnostics of p and changes those of no other
\* project.
C35_InvalidateFrame ==
    \A p \in Proj, level \in Levels :
        \E r \in {invalidateProject(W, p, level).s} :
            /\ r.configFileCache =
                   IF level = LevelFull THEN [state.configFileCache EXCEPT ![p] = NoConfig]
                   ELSE state.configFileCache
            /\ r.buildOrder = IF level = LevelFull THEN NoBuildOrder ELSE state.buildOrder
            /\ r.projectStatus = [state.projectStatus EXCEPT ![p] = NoStatus]
            /\ r.diagnostics = [state.diagnostics EXCEPT ![p] = <<>>]

\* invalidateProject has been called for project 1 after a build: its
\* configuration is evicted and the build order is cleared (level Full),
\* its status is cleared, and the configuration and the status of project 2
\* are still cached.
C35_Witness ==
    /\ last.op = "invalidateProject" /\ last.project = 1
    /\ state.configFileCache[1] = NoConfig /\ state.buildOrder = NoBuildOrder
    /\ state.projectStatus[1] = NoStatus /\ state.diagnostics[1] = <<>>
    /\ isParsedCommandLine(state.configFileCache[2])
    /\ state.projectStatus[2] # NoStatus

\* ------------------------------------------------------------------ C36
\* A step in which the debounce timer fires
TimerFires ==
    /\ pc = "idle" /\ pc' = "idle" /\ last'.op = "timer"
    /\ <<state, host, trace, last>>' # <<state, host, trace, last>>

\* The log entries the firing adds
FiringEntries == IF last.op = "timer" THEN NewEntries ELSE 1..Len(trace')

FiringActions == {k \in FiringEntries : trace'[k].kind \in ActionKinds}

TimerDiscipline ==
    /\ state.hostWithWatch.timeouts <= 1
    /\ state.timerToBuildInvalidatedProject <=> state.hostWithWatch.timeouts > 0

\* C36: under every interleaving of watcher events and timer firings at most
\* one debounce timer is outstanding, timerToBuildInvalidatedProject is set
\* exactly when one is outstanding, a firing executes at most one project
\* action, and it schedules a new timer exactly when it executed an action and
\* a pending-build entry is left afterwards.
C36_OneTimerOneActionPerFiring ==
    [][/\ TimerDiscipline /\ TimerDiscipline'
       /\ TimerFires =>
            /\ Cardinality(FiringActions) <= 1
            /\ state'.timerToBuildInvalidatedProject
                   <=> /\ FiringActions # {}
                       /\ \E p \in Proj : state'.projectPendingBuild[p] # NotPending]_vars

\* A firing has executed one action, entries are left, and a new timer is
\* outstanding.
C36_Witness ==
    /\ pc = "idle" /\ last.op = "timer"
    /\ Acted # {}
    /\ \E p \in Proj : state.projectPendingBuild[p] # NotPending
    /\ state.timerToBuildInvalidatedProject
    /\ state.hostWithWatch.timeouts = 1

\* ------------------------------------------------------------------ C37
\* The watch program: build() once, which starts the watchers, then
\* file-system events and timer firings only.
\* The host provides setTimeout and clearTimeout, one of them, or neither,
\* and onWatchStatusChange or not.
WatchHosts ==
    {[h EXCEPT !.setTimeout = t[1], !.clearTimeout = t[2],
               !.onWatchStatusChange = status] :
        h \in SolutionHosts, t \in {<<TRUE, TRUE>>, <<TRUE, FALSE>>, <<FALSE, FALSE>>},
        status \in BOOLEAN}

InitWatch == InitWith(WatchHosts, {<<3>>}, AllOptions, {TRUE})

WatchBuild == state.watchAllProjectsPending /\ Build(0)

NextWatch ==
    \/ WatchBuild
    \/ BuildProject
    \/ BuildReturn
    \/ \E text \in {0, 1}, err \in EditErrors : EditInput(1, text, err)
    \/ InputFileWatcher(1)
    \/ TimerToBuildInvalidatedProject

\* build() runs to completion and every timer that is set fires; file-system
\* events are under no obligation and stop when the clock runs out.
SpecWatch ==
    /\ InitWatch /\ [][NextWatch]_vars
    /\ WF_vars(WatchBuild) /\ WF_vars(BuildProject) /\ WF_vars(BuildReturn)
    /\ WF_vars(TimerToBuildInvalidatedProject)

InBuildOrder(p) ==
    /\ state.buildOrder # NoBuildOrder
    /\ \E i \in 1..Len(state.buildOrder) : state.buildOrder[i] = p

\* The pass has ended.  The summary has been emitted: needsSummary is cleared
\* and a host that provides onWatchStatusChange has received the total.
Quiescent ==
    /\ pc = "idle"
    /\ \A p \in Proj : InBuildOrder(p) => state.projectPendingBuild[p] = NotPending
    /\ ~state.timerToBuildInvalidatedProject
    /\ state.hostWithWatch.timeouts = 0
    /\ ~state.cache
    /\ ~state.needsSummary
    /\ host.onWatchStatusChange => host.errorSummary # Undefined

\* C37: in watch mode, once the file-system events have stopped and every
\* timer that was set has fired, no project of the build order has a
\* pending-build entry, no timer is outstanding, the cache is disabled and the
\* error summary of the pass has been emitted, and it stays so.
C37_WatchPassQuiesces == <>[]Quiescent

HostHasTimers == host.setTimeout /\ host.clearTimeout

\* C37 (amended): the same on a host that provides setTimeout and
\* clearTimeout.  On a host without them no timer is ever set and the entries
\* a file-system event queues stay.
C37_WatchPassQuiescesWithTimers == HostHasTimers => <>[]Quiescent

\* On a host without timers a file-system event has queued a project and
\* nothing is scheduled to build it.
C37_QueuedWithoutTimer ==
    /\ ~HostHasTimers /\ state.watch /\ pc = "idle" /\ last.op = "watch"
    /\ \E p \in Proj : InBuildOrder(p) /\ state.projectPendingBuild[p] # NotPending
    /\ ~state.timerToBuildInvalidatedProject /\ state.hostWithWatch.timeouts = 0

\* A pass started by a file-system event has ended: the last timer acted and
\* left the builder quiescent.
C37_Witness ==
    /\ last.op = "timer" /\ Acted # {}
    /\ HostHasTimers
    /\ state.watch /\ Quiescent

\* ------------------------------------------------------------------ C38
\* A solution whose root 3 references 2; project 1 exists on disk but nothing
\* references it yet.
ReloadConfigs == {<<Lib, Lib, App(<<Ref(2, FALSE, FALSE)>>)>>}

ReloadHosts ==
    {InitialHost(config, [p \in Proj |-> 1], err) :
        config \in ReloadConfigs, err \in SolutionErrors}

InitReload == InitWith(ReloadHosts, {<<3>>}, AllOptions, {TRUE})

\* The configurations an edit can give projects 2 and 3: a reference to
\* project 1 is added.
ReloadEdits ==
    [p \in {2, 3} |->
        IF p = 2 THEN {App(<<Ref(1, FALSE, FALSE)>>)}
        ELSE {App(<<Ref(2, FALSE, FALSE), Ref(1, FALSE, FALSE)>>),
              App(<<Ref(1, FALSE, FALSE), Ref(2, FALSE, FALSE)>>)}]

\* The configuration file of project p is rewritten on disk.
EditConfig(p, config) ==
    /\ pc = "idle" /\ ops < MaxOps
    /\ host.now < MaxClock
    /\ \A i \in 1..Len(host.config[p].refs) : host.config[p].refs[i].path # 1
    /\ host' = [host EXCEPT !.now = @ + 1, !.configTime[p] = host.now + 1,
                            !.config[p] = config]
    /\ last' = Done("editConfig", p, "none")
    /\ call' = NoCall
    /\ ops' = ops + 1
    /\ UNCHANGED <<state, pc, trace>>

\* The callback of watchConfigFile
ConfigFileWatcher(p) ==
    /\ pc = "idle"
    /\ state.watch /\ p \in state.allWatchedConfigFiles
    /\ last.op = "editConfig" /\ last.project = p
    /\ Becomes(invalidateProjectAndScheduleBuilds(Wstart, p, LevelFull))
    /\ last' = Done("watchConfig", p, "none")
    /\ UNCHANGED <<pc, call, ops>>

NextReload ==
    \/ WatchBuild
    \/ BuildProject
    \/ BuildReturn
    \/ \E p \in {2, 3} : \E config \in ReloadEdits[p] : EditConfig(p, config)
    \/ \E p \in {2, 3} : ConfigFileWatcher(p)
    \/ TimerToBuildInvalidatedProject

SpecReload == InitReload /\ [][NextReload]_vars

\* createBuildOrder parses every project it visits and only a Full reload of a
\* project evicts its configuration, which SpecReload has for projects 2 and 3
\* only: project 1 without an entry has been in no build order so far.
NotInPreviousOrder(n) == state.configFileCache[n].kind = "absent"

ReferencesOnDisk(p, n) ==
    /\ host.config[p].kind = "parsed"
    /\ \E i \in 1..Len(host.config[p].refs) : host.config[p].refs[i].path = n

\* C38: in watch mode, when the Full reload of a project re-reads a
\* configuration that now references a project that was in no build order
\* before, the new project gets a pending-build entry and is acted on or found
\* up to date before an action is executed for the reloaded project.
C38_NewReferenceProcessedFirst ==
    [][\A p \in {2, 3} :
          /\ TimerFires
          /\ state.projectPendingBuild[p] = LevelFull
          /\ ReferencesOnDisk(p, 1) /\ NotInPreviousOrder(1)
          => \A k \in FiringActions :
                 trace'[k].project = p
                 => \E j \in 1..(k - 1) : trace'[j].project = 1]_vars

\* The reloaded project has been acted on although the project it newly
\* references was never queued, has no output and is not queued now.
C38_NewReferenceNeverQueued ==
    /\ pc = "idle" /\ last.op = "timer"
    /\ \E p \in {2, 3} : ReferencesOnDisk(p, 1) /\ ActedOn(p)
    /\ InBuildOrder(1)
    /\ \A i \in 1..Len(trace) : trace[i].project # 1
    /\ state.projectPendingBuild[1] = NotPending
    /\ host.js[1] = NoFile
    /\ Quiescent

\* ------------------------------------------------------------------ C39
\* One-shot builders over a solution 1 <- 2 <- 3 in which library 1 has a
\* configuration with or without errors, with listed files or include
\* patterns, or one that cannot be parsed; its input file exists or not, and
\* the host provides reportErrorSummary or not.
SummaryHosts ==
    {[InitialHost(<<c1, App(<<Ref(1, FALSE, FALSE)>>), App(<<Ref(2, FALSE, FALSE)>>)>>,
                  [p \in Proj |-> IF p = 1 THEN input ELSE 1], err)
         EXCEPT !.reportErrorSummary = summary] :
        c1 \in {Lib, ConfigDiagnostic, [Lib EXCEPT !.errors = TRUE],
                [Lib EXCEPT !.noInputsError = TRUE],
                [Lib EXCEPT !.errors = TRUE, !.noInputsError = TRUE]},
        input \in {1, NoFile}, err \in SolutionErrors, summary \in BOOLEAN}

InitSummary == InitWith(SummaryHosts, {<<3>>}, AllOptions, {FALSE})

NextSummary ==
    \/ Build(0)
    \/ BuildProject
    \/ BuildReturn
    \/ \E p \in {1, 2} : InvalidateProject(p, LevelNone)
    \/ InvalidateProject(1, LevelPartial)
    \/ \E text \in {0, 1}, err \in EditErrors : EditInput(1, text, err)

SpecSummary == InitSummary /\ [][NextSummary]_vars

\* The number of diagnostics in the stored entries
StoredErrors(s) ==
    Cardinality(UNION {{<<p, i>> : i \in 1..Len(s.diagnostics[p])} : p \in Proj})

\* A summary is due and there is a function to hand it to
SummaryEmitted(w) ==
    /\ w.s.needsSummary
    /\ IF w.s.watch THEN w.h.onWatchStatusChange ELSE w.h.reportErrorSummary

\* What the summary at the end of build() does to the world w the loop left
SummaryReportsOnlyUnreported(w) ==
    Let(reportErrorSummary(disableCache(w)), LAMBDA w1 :
        /\ \A p \in Proj :
              w1.h.reportDiagnostic[p] # w.h.reportDiagnostic[p]
              => /\ SummaryEmitted(w)
                 /\ p \notin w.s.projectErrorsReported
                 /\ w.s.diagnostics[p] # <<>>
                 /\ w1.h.reportDiagnostic[p] = w.h.reportDiagnostic[p] + 1
        /\ SummaryEmitted(w) => w1.h.errorSummary = StoredErrors(w.s)
        /\ ~SummaryEmitted(w) => w1.h.errorSummary = w.h.errorSummary)

\* C39: within a one-shot build(), its summary included, the diagnostics of a
\* project go to the diagnostic reporter at most once: the summary reports the
\* stored diagnostics of the projects not marked in projectErrorsReported only,
\* and its total is the sum of the error counts of all stored entries.
C39_DiagnosticsReportedAtMostOnce ==
    /\ (~state.watch /\ (pc = "build" \/ last.op = "build"))
       => \A p \in Proj : host.reportDiagnostic[p] <= 1
    /\ (~state.watch /\ pc = "build")
       => Let(getNextInvalidatedProject(W, call.buildOrder), LAMBDA g :
              g.handle.kind = "none" => SummaryReportsOnlyUnreported(g.w))
    /\ (~state.watch /\ BuildReturned /\ host.errorSummary # Undefined)
       => host.errorSummary = StoredErrors(state)

\* A one-shot build() has returned with the diagnostics of a failed project
\* reported once and counted in the total of the summary.
C39_Witness ==
    /\ ~state.watch /\ BuildReturned
    /\ host.errorSummary = 2
    /\ \E p \in Proj : /\ ActedOn(p)
                      /\ state.diagnostics[p] # <<>>
                      /\ p \in state.projectErrorsReported
                      /\ host.reportDiagnostic[p] = 1

====
